---- MODULE Spec2Model ----
(***************************************************************************)
(* A model of the bunnyAI multi-book RAG system: the disk caches of book   *)
(* analyses and knowledge graphs, the cache validity rule, the cleaning of *)
(* knowledge graphs and their force-graph projection, chunk retrieval and  *)
(* de-duplication, the query pipeline, the knowledge-graph refresh handler *)
(* and the lazily constructed RAG singleton.                               *)
(*                                                                         *)
(* Time is counted in whole days.  Reading an intact file succeeds; what a  *)
(* write of a cache file does (succeed, fail on open, fail half way) is an *)
(* input of the operation that writes.                                     *)
(***************************************************************************)
EXTENDS Integers, Sequences, FiniteSets, TLC

\* ---------------------------------------------------------------- bounds
\* The largest clock value (days) the model lets the clock reach.
MaxTime == 9
\* The longest relationship list an extraction returns.
MaxRels == 2

\* ------------------------------------------------------ program constants
\* self.cache_expiry_days = 7
cache_expiry_days == 7

\* --------------------------------------------------------------- helpers
Range(s) == {s[i] : i \in 1..Len(s)}

RECURSIVE SelectSeqBy(_, _)
\* [x for x in s if x \in keep], order preserved.
SelectSeqBy(s, keep) ==
    IF s = <<>> THEN <<>>
    ELSE IF Head(s) \in keep
         THEN <<Head(s)>> \o SelectSeqBy(Tail(s), keep)
         ELSE SelectSeqBy(Tail(s), keep)

SeqsUpTo(S, n) == UNION {[1..k -> S] : k \in 0..n}

Times == 0..MaxTime

\* ------------------------------------------------- timestamps and metadata
\* The strings a metadata 'created_at' may hold.  "naive" is what
\* datetime.now().isoformat() writes; "aware" is an ISO timestamp carrying a
\* UTC offset; "garbage" is a string that is no ISO timestamp; "empty" is "".
TimestampStrings ==
    [kind : {"naive", "aware"}, t : Times]
        \cup {[kind |-> "garbage", t |-> 0], [kind |-> "empty", t |-> 0]}

\* datetime.now().isoformat()
isoformat(t) == [kind |-> "naive", t |-> t]

\* datetime.fromisoformat(s): the parsed datetime, or ValueError.
fromisoformat(s) ==
    IF s.kind \in {"naive", "aware"}
    THEN [ok |-> TRUE, aware |-> (s.kind = "aware"), t |-> s.t]
    ELSE [ok |-> FALSE, aware |-> FALSE, t |-> 0]

\* A metadata dict: a function from some of its keys to their values.
EmptyMeta == [k \in {} |-> 0]
OtherMeta == [book_id |-> "b1"]
MetaWith(ts) == [created_at |-> ts]
Metadatas == {EmptyMeta, OtherMeta} \cup {MetaWith(ts) : ts \in TimestampStrings}

\* The try block of is_cache_valid: the comparison's value, or the exception
\* it raises (ValueError from fromisoformat, TypeError from comparing the
\* naive datetime.now() with an offset-aware datetime).
is_cache_valid_try(created_at_str, now) ==
    LET p == fromisoformat(created_at_str) IN
    IF ~p.ok THEN "ValueError"
    ELSE IF p.aware THEN "TypeError"
    ELSE IF now < p.t + cache_expiry_days THEN "True" ELSE "False"

\* A plausible slip: the entry still counts as valid on the day it expires.
is_cache_valid_inclusive(metadata, now) ==
    IF metadata = EmptyMeta THEN FALSE
    ELSE IF "created_at" \notin DOMAIN metadata THEN FALSE
    ELSE IF metadata.created_at.kind = "empty" THEN FALSE
    ELSE LET p == fromisoformat(metadata.created_at) IN
         p.ok /\ ~p.aware /\ now <= p.t + cache_expiry_days

\* MultiBookAnalyzer.is_cache_valid
is_cache_valid(metadata, now) ==
    IF metadata = EmptyMeta THEN FALSE
    ELSE IF "created_at" \notin DOMAIN metadata THEN FALSE
    ELSE IF metadata.created_at.kind = "empty" THEN FALSE
    ELSE LET r == is_cache_valid_try(metadata.created_at, now) IN
         IF r \in {"ValueError", "TypeError"} THEN FALSE ELSE r = "True"

\* BookKnowledgeGraph.is_cache_valid (the same code, in the other class)
kg_is_cache_valid(metadata, now) ==
    IF metadata = EmptyMeta THEN FALSE
    ELSE IF "created_at" \notin DOMAIN metadata THEN FALSE
    ELSE IF metadata.created_at.kind = "empty" THEN FALSE
    ELSE LET r == is_cache_valid_try(metadata.created_at, now) IN
         IF r \in {"ValueError", "TypeError"} THEN FALSE ELSE r = "True"

\* ------------------------------------------------------------ the chunk store
\* Chunk identities.  A stored chunk is its book_id, its chunk_index and the
\* first 50 characters of its text; upload_single_book stores each
\* (book_id, chunk_index) once, under the id "<book_id>_chunk_<i>".
Books == {"b1", "b2"}
\* A book id under which nothing is stored.
GhostBook == "ghost"
BookIds == Books \cup {GhostBook}

\* The collection after uploading b1 (two chunks) and b2 (one chunk); the two
\* books open with the same words, so b1's and b2's first chunks share their
\* first 50 characters.
SeedStore ==
    { [book_id |-> "b1", chunk_index |-> 0, prefix |-> "p"],
      [book_id |-> "b1", chunk_index |-> 1, prefix |-> "q"],
      [book_id |-> "b2", chunk_index |-> 0, prefix |-> "p"] }

\* A plausible slip: the where clause is dropped, every chunk is returned.
get_book_chunks_unfiltered(st, book_id) == st

\* MultiBookAnalyzer.get_book_chunks: the chunks stored under book_id.
get_book_chunks(st, book_id) == {ch \in st : ch.book_id = book_id}

\* -------------------------------------------------------- knowledge graphs
EntityIds == {"a", "b"}
EntityData(e) == [name |-> e, type |-> "character"]
\* The entity sets and the relationships an extraction is given: over the
\* entities {a}, a->a is kept and a->b and b->a are orphans.
EntitySets == {{}, {"a"}, {"a", "b"}}
Relationships ==
    { [from |-> "a", to |-> "b", type |-> "knows"],
      [from |-> "b", to |-> "a", type |-> "knows"],
      [from |-> "a", to |-> "a", type |-> "knows"] }

\* The JSON objects with an 'entities' mapping and a 'relationships' list that
\* an extraction can return.
Graphs ==
    { [entities |-> [e \in S |-> EntityData(e)], relationships |-> r] :
        S \in EntitySets, r \in SeqsUpTo(Relationships, MaxRels) }

EmptyGraph == [entities |-> [e \in {} |-> EntityData(e)], relationships |-> <<>>]

\* What the extraction LLM call can do: raise, answer with text that is no
\* JSON, answer with JSON lacking a key, or answer with a graph.
ExtractionFailures == {[failure |-> k] : k \in {"raise", "badjson", "nokeys"}}

\* A cache file that does not exist; None.
NoFile == [exists |-> FALSE]
None == [none |-> TRUE]

\* What "with open(cache_file, 'wb') as f: pickle.dump(data, f)" can do: write
\* the file, raise in open (the old file stays), or raise in dump after open
\* has truncated the file (a file that cannot be unpickled stays).
WriteOutcomes == {"ok", "open_fails", "dump_fails"}
CorruptFile == [corrupt |-> TRUE]
write_file(old, data, outcome) ==
    IF outcome = "ok" THEN data
    ELSE IF outcome = "open_fails" THEN old
    ELSE CorruptFile

\* pickle.load(f) of an existing file succeeds.
Unpickles(file) == file # NoFile /\ file # CorruptFile

\* MultiBookAnalyzer.extract_comprehensive_entities: the parsed graph, or the
\* empty graph when the call raises or the response does not parse or lacks
\* a key.
extract_comprehensive_entities(response) ==
    IF response \in ExtractionFailures THEN EmptyGraph ELSE response

\* BookKnowledgeGraph._extract_entities_and_relationships: the parsed graph,
\* or None.
extract_entities_and_relationships(response) ==
    IF response \in ExtractionFailures THEN None ELSE response

\* BookKnowledgeGraph._store_entities_in_chromadb: one add per entity under
\* the id "<book_id>_<entity_id>".
store_entities_in_chromadb(index, book_id, entities) ==
    index \cup {<<book_id, e>> : e \in DOMAIN entities}

\* BookKnowledgeGraph._save_knowledge_graph_to_cache: the file becomes the
\* pickled kg_data itself; a failed write is printed and passed over.
save_knowledge_graph_to_cache(file, kg_data, outcome) == write_file(file, kg_data, outcome)

\* BookKnowledgeGraph.get_knowledge_graph: the unpickled file when it has
\* both keys, else None (also when pickle.load raises).
get_knowledge_graph(file) ==
    IF ~Unpickles(file) THEN None
    ELSE IF {"entities", "relationships"} \subseteq DOMAIN file THEN file
    ELSE None

\* The ids a relationship list may keep: those rel with rel.from and rel.to
\* both among entity_ids.
ValidRels(entity_ids) == {r \in Relationships : r.from \in entity_ids /\ r.to \in entity_ids}

\* A plausible slip: only the 'from' endpoint is checked.
valid_relationships_from_only(entities, relationships) ==
    SelectSeqBy(relationships, {r \in Relationships : r.from \in DOMAIN entities})

\* The filtering loop of validate_and_clean_knowledge_graph.
valid_relationships(entities, relationships) ==
    SelectSeqBy(relationships, ValidRels(DOMAIN entities))

\* A plausible slip: the cleaned graph is written back on every call.
validate_and_clean_always_writes(file, outcome) ==
    LET kg_data == get_knowledge_graph(file) IN
    IF kg_data = None
    THEN [ret |-> EmptyGraph, file |-> file, orphaned_count |-> 0, wrote |-> FALSE]
    ELSE LET valid == valid_relationships(kg_data.entities, kg_data.relationships)
             cleaned == [entities |-> kg_data.entities, relationships |-> valid]
         IN  [ret |-> cleaned, file |-> write_file(file, cleaned, outcome),
              orphaned_count |-> Len(kg_data.relationships) - Len(valid),
              wrote |-> TRUE]

\* A plausible slip: the cleaned graph is returned but never written back.
validate_and_clean_never_writes(file, outcome) ==
    LET kg_data == get_knowledge_graph(file) IN
    IF kg_data = None
    THEN [ret |-> EmptyGraph, file |-> file, orphaned_count |-> 0, wrote |-> FALSE]
    ELSE LET valid == valid_relationships(kg_data.entities, kg_data.relationships)
             cleaned == [entities |-> kg_data.entities, relationships |-> valid]
         IN  [ret |-> cleaned, file |-> file,
              orphaned_count |-> Len(kg_data.relationships) - Len(valid),
              wrote |-> FALSE]

\* BookKnowledgeGraph.validate_and_clean_knowledge_graph: the returned graph,
\* the cache file afterwards, the number of relationships removed and whether
\* a write of the file was attempted (outcome is what that write does).
validate_and_clean_knowledge_graph(file, outcome) ==
    LET kg_data == get_knowledge_graph(file) IN
    IF kg_data = None
    THEN [ret |-> EmptyGraph, file |-> file, orphaned_count |-> 0, wrote |-> FALSE]
    ELSE LET valid == valid_relationships(kg_data.entities, kg_data.relationships)
             orphaned == Len(kg_data.relationships) - Len(valid)
             cleaned == [entities |-> kg_data.entities, relationships |-> valid]
         IN  [ret |-> cleaned,
              file |-> IF orphaned > 0 THEN write_file(file, cleaned, outcome) ELSE file,
              orphaned_count |-> orphaned,
              wrote |-> orphaned > 0]

RECURSIVE SetToSeq(_)
\* The keys of a dict in its iteration order (one fixed order per key set).
SetToSeq(S) ==
    IF S = {} THEN <<>>
    ELSE LET x == CHOOSE y \in S : TRUE IN <<x>> \o SetToSeq(S \ {x})

\* Entities to nodes and relationships to links, as get_force_graph_data
\* builds them from the cleaned graph.
force_graph_of(kg_data) ==
    LET ids == SetToSeq(DOMAIN kg_data.entities) IN
    [ nodes |-> [i \in 1..Len(ids) |->
                    [id |-> ids[i],
                     name |-> kg_data.entities[ids[i]].name,
                     type |-> kg_data.entities[ids[i]].type,
                     group |-> kg_data.entities[ids[i]].type]],
      links |-> [i \in 1..Len(kg_data.relationships) |->
                    [source |-> kg_data.relationships[i].from,
                     target |-> kg_data.relationships[i].to,
                     type |-> kg_data.relationships[i].type]] ]

\* BookKnowledgeGraph.get_force_graph_data: validate and clean, then project.
get_force_graph_data(file, outcome) ==
    LET v == validate_and_clean_knowledge_graph(file, outcome) IN
    [ret |-> force_graph_of(v.ret), file |-> v.file,
     orphaned_count |-> v.orphaned_count, wrote |-> v.wrote]

\* BookKnowledgeGraph.get_entity_relationships: the relationships of the
\* cached graph that start or end at entity_id; [] without a graph.
get_entity_relationships(file, entity_id) ==
    LET kg_data == get_knowledge_graph(file) IN
    IF kg_data = None THEN <<>>
    ELSE SelectSeqBy(kg_data.relationships,
                     {r \in Relationships : r.from = entity_id \/ r.to = entity_id})

\* A plausible slip: the cache write is not guarded, so a failed write
\* turns the extraction into an error result.
extract_knowledge_graph_write_unguarded(book_id, force_refresh, now, file, index, response, outcome) ==
    IF /\ ~force_refresh
       /\ Unpickles(file)
       /\ "metadata" \in DOMAIN file
       /\ "knowledge_graph" \in DOMAIN file
       /\ kg_is_cache_valid(file.metadata, now)
    THEN [ret |-> file.knowledge_graph, file |-> file, index |-> index,
          llm_calls |-> 0, wrote |-> FALSE]
    ELSE LET kg_data == extract_entities_and_relationships(response) IN
         IF kg_data = None
         THEN [ret |-> [error |-> book_id], file |-> file, index |-> index,
               llm_calls |-> 1, wrote |-> FALSE]
         ELSE [ret |-> IF outcome = "ok" THEN kg_data ELSE [error |-> book_id],
               file |-> write_file(file,
                            [knowledge_graph |-> kg_data,
                             metadata |-> [book_id |-> book_id,
                                           created_at |-> isoformat(now)]],
                            outcome),
               index |-> IF outcome = "ok"
                         THEN store_entities_in_chromadb(index, book_id, kg_data.entities)
                         ELSE index,
               llm_calls |-> 1, wrote |-> TRUE]

\* BookKnowledgeGraph.extract_knowledge_graph: a valid cached entry is
\* returned; otherwise one LLM call, and on success the graph is cached
\* under 'knowledge_graph' beside its 'metadata' and its entities indexed.
extract_knowledge_graph(book_id, force_refresh, now, file, index, response, outcome) ==
    IF /\ ~force_refresh
       /\ Unpickles(file)
       /\ "metadata" \in DOMAIN file
       /\ "knowledge_graph" \in DOMAIN file
       /\ kg_is_cache_valid(file.metadata, now)
    THEN [ret |-> file.knowledge_graph, file |-> file, index |-> index,
          llm_calls |-> 0, wrote |-> FALSE]
    ELSE LET kg_data == extract_entities_and_relationships(response) IN
         IF kg_data = None
         THEN [ret |-> [error |-> book_id], file |-> file, index |-> index,
               llm_calls |-> 1, wrote |-> FALSE]
         ELSE [ret |-> kg_data,
               file |-> write_file(file,
                            [knowledge_graph |-> kg_data,
                             metadata |-> [book_id |-> book_id,
                                           created_at |-> isoformat(now)]],
                            outcome),
               index |-> store_entities_in_chromadb(index, book_id, kg_data.entities),
               llm_calls |-> 1, wrote |-> TRUE]

\* MultiBookAnalyzer.build_knowledge_graph_from_entities: index the
\* entities, save the graph to the knowledge-graph cache, return it.
build_knowledge_graph_from_entities(book_id, index, file, entities_data, outcome) ==
    [ret |-> entities_data,
     index |-> store_entities_in_chromadb(index, book_id, entities_data.entities),
     file |-> save_knowledge_graph_to_cache(file, entities_data, outcome)]

\* ------------------------------------------------------------ book analyses
\* What a text-producing LLM call can do: return a text, or raise.
TextResponses == {"text1", "text2", "raise"}

\* create_book_summary, analyze_characters, analyze_plot_and_conflicts: the
\* LLM's text, or an inline error string when the call raises.
create_book_summary(response) ==
    IF response = "raise" THEN "Error creating summary" ELSE response
\* A plausible slip: analyze_characters without its try block.
analyze_characters_unguarded(response) == response
analyze_characters(response) ==
    IF response = "raise" THEN "Error analyzing characters" ELSE response
analyze_plot_and_conflicts(response) ==
    IF response = "raise" THEN "Error analyzing plot" ELSE response

\* What the two cache writes of one analysis do: the knowledge-graph file
\* and the analysis file.
Disks == [kg : WriteOutcomes, analysis : WriteOutcomes]
DiskOk == [kg |-> "ok", analysis |-> "ok"]

\* A plausible slip: the cache is consulted but the analysis is redone anyway.
analyze_single_book_ignoring_cache(st, book_id, force_refresh, now, afile, kfile, index, ext, s, c, p, disk) ==
    IF get_book_chunks(st, book_id) = {}
    THEN [ret |-> [error |-> book_id], afile |-> afile, kfile |-> kfile,
          index |-> index, llm_calls |-> 0, hit |-> FALSE, wrote |-> FALSE]
    ELSE LET entities == extract_comprehensive_entities(ext)
             kg == build_knowledge_graph_from_entities(book_id, index, kfile, entities, disk.kg)
             analysis == [book_summary |-> create_book_summary(s),
                          character_analysis |-> analyze_characters(c),
                          plot_analysis |-> analyze_plot_and_conflicts(p),
                          knowledge_graph |-> kg.ret]
         IN  [ret |-> analysis,
              afile |-> write_file(afile,
                            [analysis |-> analysis,
                             metadata |-> [book_id |-> book_id,
                                           created_at |-> isoformat(now)]],
                            disk.analysis),
              kfile |-> kg.file, index |-> kg.index,
              llm_calls |-> 4, hit |-> FALSE, wrote |-> TRUE]

\* MultiBookAnalyzer.analyze_single_book.  st is the chunk collection, afile
\* and kfile the book's analysis and knowledge-graph cache files, index the
\* entity collection; ext, s, c, p are what the four LLM calls do if they
\* are made, disk what the two cache writes do if they are made.
analyze_single_book(st, book_id, force_refresh, now, afile, kfile, index, ext, s, c, p, disk) ==
    IF /\ ~force_refresh
       /\ Unpickles(afile)
       /\ is_cache_valid(afile.metadata, now)
    THEN [ret |-> afile.analysis, afile |-> afile, kfile |-> kfile,
          index |-> index, llm_calls |-> 0, hit |-> TRUE, wrote |-> FALSE]
    ELSE IF get_book_chunks(st, book_id) = {}
    THEN [ret |-> [error |-> book_id], afile |-> afile, kfile |-> kfile,
          index |-> index, llm_calls |-> 0, hit |-> FALSE, wrote |-> FALSE]
    ELSE LET entities == extract_comprehensive_entities(ext)
             kg == build_knowledge_graph_from_entities(book_id, index, kfile, entities, disk.kg)
             analysis == [book_summary |-> create_book_summary(s),
                          character_analysis |-> analyze_characters(c),
                          plot_analysis |-> analyze_plot_and_conflicts(p),
                          knowledge_graph |-> kg.ret]
         IN  [ret |-> analysis,
              afile |-> write_file(afile,
                            [analysis |-> analysis,
                             metadata |-> [book_id |-> book_id,
                                           created_at |-> isoformat(now)]],
                            disk.analysis),
              kfile |-> kg.file, index |-> kg.index,
              llm_calls |-> 4, hit |-> FALSE, wrote |-> TRUE]

\* MultiBookAnalyzer.refresh_knowledge_graph: a forced analysis; its error,
\* or the graph it built.
refresh_knowledge_graph(st, book_id, now, afile, kfile, index, ext, s, c, p, disk) ==
    LET a == analyze_single_book(st, book_id, TRUE, now, afile, kfile, index, ext, s, c, p, disk) IN
    [a EXCEPT !.ret = IF "error" \in DOMAIN a.ret THEN [error |-> a.ret.error]
                      ELSE a.ret.knowledge_graph]

\* ------------------------------------- the single-book analyzer (utils)
\* BookAnalyzer.get_cache_hash: a hash of the collection's count and first
\* ids; the collection is modelled by its document count.
get_cache_hash(collection) == collection

\* BookAnalyzer.is_cache_valid: both files exist, the entry has not expired
\* and the stored hash is the collection's current hash.
ba_is_cache_valid(cache_file, metadata_file, now, collection) ==
    IF cache_file = NoFile \/ metadata_file = NoFile THEN FALSE
    ELSE IF metadata_file = CorruptFile THEN FALSE
    ELSE LET cache_time == fromisoformat(metadata_file.created_at) IN
         IF ~cache_time.ok \/ cache_time.aware THEN FALSE
         ELSE IF now - cache_time.t > cache_expiry_days THEN FALSE
         ELSE IF metadata_file.content_hash # get_cache_hash(collection) THEN FALSE
         ELSE TRUE

\* BookAnalyzer.load_analysis_from_cache
load_analysis_from_cache(cache_file, metadata_file, now, collection) ==
    IF ~ba_is_cache_valid(cache_file, metadata_file, now, collection) THEN None
    ELSE IF cache_file = CorruptFile THEN None
    ELSE cache_file

\* What the two writes of save_analysis_to_cache do: the pickled analysis,
\* then the JSON metadata.
BaDisks == [cache : WriteOutcomes, metadata : WriteOutcomes]
BaDiskOk == [cache |-> "ok", metadata |-> "ok"]

\* BookAnalyzer.save_analysis_to_cache: the two files afterwards.  Both
\* writes are in one try block, so a failure of the first skips the second.
save_analysis_to_cache(cache_file, metadata_file, analysis, now, collection, disk) ==
    [cache_file |-> write_file(cache_file, analysis, disk.cache),
     metadata_file |->
        IF disk.cache # "ok" THEN metadata_file
        ELSE write_file(metadata_file,
                        [created_at |-> isoformat(now),
                         content_hash |-> get_cache_hash(collection)],
                        disk.metadata)]

\* BookAnalyzer.create_book_summary: no LLM call when the collection is
\* empty; a failed call becomes an inline error string.
ba_create_book_summary(collection, response) ==
    IF collection = 0 THEN "No book content found."
    ELSE IF response = "raise" THEN "Error creating book summary" ELSE response

\* BookAnalyzer.analyze_characters and analyze_plot_and_conflicts: always
\* one LLM call.
ba_analyze(response, error) ==
    IF response = "raise" THEN error ELSE response

\* BookAnalyzer.perform_full_analysis
perform_full_analysis(force_refresh, now, cache_file, metadata_file, collection, s, c, p, disk) ==
    LET cached_analysis ==
            IF force_refresh THEN None
            ELSE load_analysis_from_cache(cache_file, metadata_file, now, collection)
    IN  IF cached_analysis # None
        THEN [ret |-> cached_analysis, cache_file |-> cache_file,
              metadata_file |-> metadata_file, llm_calls |-> 0,
              hit |-> TRUE, wrote |-> FALSE]
        ELSE LET analysis ==
                     [book_summary |-> ba_create_book_summary(collection, s),
                      character_analysis |-> ba_analyze(c, "Error analyzing characters"),
                      plot_analysis |-> ba_analyze(p, "Error analyzing plot")]
                 saved == save_analysis_to_cache(cache_file, metadata_file, analysis,
                                                 now, collection, disk)
             IN  [ret |-> analysis, cache_file |-> saved.cache_file,
                  metadata_file |-> saved.metadata_file,
                  llm_calls |-> IF collection = 0 THEN 2 ELSE 3,
                  hit |-> FALSE, wrote |-> TRUE]

\* ------------------------------------------------------------- retrieval
\* The largest distance a similarity query reports, the largest n_results
\* asked for, the most supplementary (key-term) searches of one question.
MaxDist == 1
MaxResults == 2
MaxTerms == 1

\* The bunny_documents collection after uploading two files; metadata holds
\* source_file (here book_id) and chunk_index.
BunnyStore ==
    { [book_id |-> "f1", chunk_index |-> 0, prefix |-> "p"],
      [book_id |-> "f1", chunk_index |-> 1, prefix |-> "q"],
      [book_id |-> "f2", chunk_index |-> 0, prefix |-> "r"] }

\* What a query text is to the store: the distance of every stored chunk.
DistFns(st) == [st -> 0..MaxDist]

\* book_ids: None, or a list.
NoBookIds == [given |-> FALSE, ids |-> <<>>]
BookIdLists ==
    {NoBookIds} \cup
    { [given |-> TRUE, ids |-> l] :
        l \in {<<>>, <<"b1">>, <<"b2">>, <<"b1", "b2">>, <<GhostBook>>} }

Min(a, b) == IF a < b THEN a ELSE b
\* seq[:n]
Take(seq, n) == SubSeq(seq, 1, Min(n, Len(seq)))

RECURSIVE SortByDistance(_)
\* list.sort(key=distance): ascending and stable.
SortByDistance(chunks) ==
    IF chunks = <<>> THEN <<>>
    ELSE LET x == Head(chunks)
             rest == SortByDistance(Tail(chunks))
         IN  SelectSeq(rest, LAMBDA c : c.distance < x.distance)
             \o <<x>>
             \o SelectSeq(rest, LAMBDA c : c.distance >= x.distance)

\* collection.query(query_texts, n_results=k, where): the k nearest of the
\* chunks the where clause admits, nearest first; it raises when k is not
\* positive or the store cannot be reached.
collection_query(st, d, k, where, store_up) ==
    IF ~store_up \/ k <= 0 THEN [raised |-> TRUE, rows |-> <<>>]
    ELSE LET admitted == {ch \in st : ~where.filtered \/ ch.book_id \in where.in}
             order == SetToSeq(admitted)
             rows == [i \in 1..Len(order) |->
                         [book_id |-> order[i].book_id,
                          chunk_index |-> order[i].chunk_index,
                          prefix |-> order[i].prefix,
                          distance |-> d[order[i]]]]
         IN  [raised |-> FALSE, rows |-> Take(SortByDistance(rows), k)]

\* chunk['metadata'].get('id', chunk['text'][:50]): upload_single_book stores
\* no 'id' in the metadata, so the key is the first 50 characters of the text.
chunk_id(chunk) == chunk.prefix

RECURSIVE unique_by_chunk_id(_, _)
unique_by_chunk_id(chunks, seen_chunks) ==
    IF chunks = <<>> THEN <<>>
    ELSE IF chunk_id(Head(chunks)) \in seen_chunks
    THEN unique_by_chunk_id(Tail(chunks), seen_chunks)
    ELSE <<Head(chunks)>>
         \o unique_by_chunk_id(Tail(chunks), seen_chunks \cup {chunk_id(Head(chunks))})

\* A plausible slip: the merged list is not deduplicated.
deduplicate_nothing(chunks) == chunks

\* The seen_chunks loop of MultiBookRAG.
deduplicate(chunks) == unique_by_chunk_id(chunks, {})

\* A plausible slip: the final [:n_results] is missing.
retrieve_relevant_chunks_untruncated(st, d, book_ids, n_results, store_up) ==
    LET where == [filtered |-> book_ids.given /\ book_ids.ids # <<>>,
                  in |-> Range(book_ids.ids)]
        results == collection_query(st, d, Min(n_results * 2, 100), where, store_up)
    IN  IF results.raised THEN <<>>
        ELSE SortByDistance(deduplicate(results.rows))

\* MultiBookRAG.retrieve_relevant_chunks
retrieve_relevant_chunks(st, d, book_ids, n_results, store_up) ==
    LET where == [filtered |-> book_ids.given /\ book_ids.ids # <<>>,
                  in |-> Range(book_ids.ids)]
        results == collection_query(st, d, Min(n_results * 2, 100), where, store_up)
    IN  IF results.raised THEN <<>>
        ELSE Take(SortByDistance(deduplicate(results.rows)), n_results)

RECURSIVE term_chunks(_, _, _, _)
\* The key-term loop: 10 chunks per term, concatenated.
term_chunks(st, terms, book_ids, store_up) ==
    IF terms = <<>> THEN <<>>
    ELSE retrieve_relevant_chunks(st, Head(terms), book_ids, 10, store_up)
         \o term_chunks(st, Tail(terms), book_ids, store_up)

\* MultiBookRAG.get_comprehensive_context: d is the question, terms its key
\* terms.  merged is unique_chunks after the sort, context the chunks that
\* are formatted into the returned string.
get_comprehensive_context(st, d, terms, book_ids, n_results, store_up) ==
    LET chunks == retrieve_relevant_chunks(st, d, book_ids, n_results, store_up) IN
    IF chunks = <<>>
    THEN [found |-> FALSE, merged |-> <<>>, context |-> <<>>]
    ELSE LET additional_chunks == term_chunks(st, Take(terms, 5), book_ids, store_up)
             unique_chunks == SortByDistance(deduplicate(chunks \o additional_chunks))
         IN  [found |-> TRUE, merged |-> unique_chunks,
              context |-> Take(unique_chunks, n_results)]

\* EnhancedRAG.retrieve_relevant_chunks
enhanced_retrieve_relevant_chunks(st, d, n_results, store_up) ==
    LET results == collection_query(st, d, Min(n_results * 2, 100),
                                    [filtered |-> FALSE, in |-> {}], store_up)
    IN  IF results.raised THEN <<>>
        ELSE Take(SortByDistance(results.rows), n_results)

RECURSIVE unique_by_chunk_index(_, _)
\* EnhancedRAG's seen_chunks loop: the key is metadata['chunk_index'].
unique_by_chunk_index(chunks, seen_chunks) ==
    IF chunks = <<>> THEN <<>>
    ELSE IF Head(chunks).chunk_index \in seen_chunks
    THEN unique_by_chunk_index(Tail(chunks), seen_chunks)
    ELSE <<Head(chunks)>>
         \o unique_by_chunk_index(Tail(chunks),
                                  seen_chunks \cup {Head(chunks).chunk_index})

RECURSIVE enhanced_term_chunks(_, _, _)
\* Strategies 2 to 4: each search is a query text with its n_results (3 for
\* a key term, 2 for a conflict term or a word of the question).
enhanced_term_chunks(st, searches, store_up) ==
    IF searches = <<>> THEN <<>>
    ELSE enhanced_retrieve_relevant_chunks(st, Head(searches).d, Head(searches).n, store_up)
         \o enhanced_term_chunks(st, Tail(searches), store_up)

\* EnhancedRAG.get_comprehensive_context
enhanced_get_comprehensive_context(st, d, searches, max_chunks, store_up) ==
    LET chunks1 == enhanced_retrieve_relevant_chunks(st, d, max_chunks \div 3, store_up)
        all_chunks == chunks1 \o enhanced_term_chunks(st, searches, store_up)
        unique_chunks == SortByDistance(unique_by_chunk_index(all_chunks, {}))
    IN  [found |-> unique_chunks # <<>>, merged |-> unique_chunks,
         context |-> Take(unique_chunks, max_chunks)]

\* ------------------------------------------------------------ the queries
NoInformationAnswer ==
    "I couldn't find any relevant information in the documents to answer your question."

\* A plausible slip: the failure of the LLM call is passed on as it is.
generate_response_unguarded(answer) == answer

\* generate_response: one LLM call; a failure becomes an error string.
generate_response(answer) ==
    IF answer = "raise" THEN "Error generating response" ELSE answer

\* get_available_books, as the list of book ids query needs.
available_book_ids(st) == SetToSeq({ch.book_id : ch \in st})

\* The created_at of the cache entry an analysis was returned from, or was
\* written under; -1 for an error result, which is no analysis.
analysis_created_at_of(r, afile, now) ==
    IF r.hit THEN afile.metadata.created_at.t
    ELSE IF "error" \in DOMAIN r.ret THEN -1
    ELSE now

RECURSIVE initialize_book_knowledge(_, _, _, _, _, _, _, _)
\* MultiBookRAG.initialize_book_knowledge(book_ids): analyze_single_book for
\* each listed book in turn.  know holds the cache files (with the day each
\* knowledge graph was saved), the entity index, book_analyses (with the
\* creation day of each analysis) and the LLM calls made so far.
initialize_book_knowledge(ids, now, know, ext, s, c, p, disk) ==
    IF ids = <<>> THEN know
    ELSE LET b == Head(ids)
             r == analyze_single_book(SeedStore, b, FALSE, now, know.afiles[b],
                                      know.kfiles[b], know.index, ext, s, c, p, disk)
         IN  initialize_book_knowledge(Tail(ids), now,
                 [afiles |-> [know.afiles EXCEPT ![b] = r.afile],
                  kfiles |-> [know.kfiles EXCEPT ![b] = r.kfile],
                  index |-> r.index,
                  book_analyses |-> [x \in DOMAIN know.book_analyses \cup {b} |->
                                        IF x = b THEN r.ret ELSE know.book_analyses[x]],
                  created |-> [x \in DOMAIN know.created \cup {b} |->
                                  IF x = b
                                  THEN analysis_created_at_of(r, know.afiles[b], now)
                                  ELSE know.created[x]],
                  saved |-> IF r.wrote /\ disk.kg = "ok"
                            THEN [know.saved EXCEPT ![b] = now] ELSE know.saved,
                  llm_calls |-> know.llm_calls + r.llm_calls],
                 ext, s, c, p, disk)

\* The states a query passes through.
PathEmpty == <<"INIT", "RETRIEVING", "CONTEXT_EMPTY", "DONE">>
PathFound == <<"INIT", "RETRIEVING", "CONTEXT_FOUND", "COMPOSING", "DONE">>

\* A plausible slip: the answer is composed whether or not context was found.
multi_query_composing_always(book_ids, n_results, use_book_knowledge, now, before, retrieval, ext, s, c, p, answer, disk) ==
    LET ids == IF book_ids.given THEN book_ids.ids ELSE available_book_ids(SeedStore)
        know == IF use_book_knowledge /\ DOMAIN before.book_analyses = {}
                THEN initialize_book_knowledge(ids, now,
                         [before EXCEPT !.book_analyses = <<>>, !.created = <<>>],
                         ext, s, c, p, disk)
                ELSE before
        found == get_comprehensive_context(SeedStore, retrieval.d, retrieval.terms,
                                           [given |-> TRUE, ids |-> ids], n_results,
                                           retrieval.store_up)
        book_knowledge == use_book_knowledge
                          /\ Range(ids) \cap DOMAIN know.book_analyses # {}
    IN  [know |-> know, found |-> found.found, compose_calls |-> 1,
         path |-> <<"INIT", "RETRIEVING", "COMPOSING", "DONE">>,
         ret |-> [answer |-> generate_response(answer), chunks_used |-> n_results,
                  context |-> found.context,
                  book_knowledge_used |-> book_knowledge,
                  books_searched |-> ids]]

\* MultiBookRAG.query.  before is what the call finds (the cache files, the
\* entity index, book_analyses, no LLM call made); retrieval holds what the
\* similarity searches of this question see (d, terms, store_up); ext, s, c,
\* p and answer are what the LLM calls do if they are made, disk what the
\* cache writes do.  path lists the states the call passes through: the book
\* ids are settled and the book knowledge initialised in INIT, the context
\* is built in RETRIEVING.
multi_query(book_ids, n_results, use_book_knowledge, now, before, retrieval, ext, s, c, p, answer, disk) ==
    LET ids == IF book_ids.given THEN book_ids.ids ELSE available_book_ids(SeedStore)
        know == IF use_book_knowledge /\ DOMAIN before.book_analyses = {}
                THEN initialize_book_knowledge(ids, now,
                         [before EXCEPT !.book_analyses = <<>>, !.created = <<>>],
                         ext, s, c, p, disk)
                ELSE before
        found == get_comprehensive_context(SeedStore, retrieval.d, retrieval.terms,
                                           [given |-> TRUE, ids |-> ids], n_results,
                                           retrieval.store_up)
        book_knowledge == use_book_knowledge
                          /\ Range(ids) \cap DOMAIN know.book_analyses # {}
    IN  IF ~found.found
        THEN [know |-> know, found |-> FALSE, compose_calls |-> 0,
              path |-> PathEmpty,
              ret |-> [answer |-> NoInformationAnswer, chunks_used |-> 0,
                       context |-> <<>>, book_knowledge_used |-> FALSE,
                       books_searched |-> ids]]
        ELSE [know |-> know, found |-> TRUE, compose_calls |-> 1,
              path |-> PathFound,
              ret |-> [answer |-> generate_response(answer), chunks_used |-> n_results,
                       context |-> found.context,
                       book_knowledge_used |-> book_knowledge,
                       model_used |-> "model",
                       context_length |-> Len(found.context),
                       book_knowledge_length |->
                           IF use_book_knowledge
                           THEN Cardinality(Range(ids) \cap DOMAIN know.book_analyses)
                           ELSE 0,
                       books_searched |-> ids]]

\* EnhancedRAG's analysis_summary: None, or get_analysis_summary() of the
\* analysis.
NoSummary == [none |-> TRUE]
get_analysis_summary(analysis) ==
    [none |-> FALSE, book_summary |-> analysis.book_summary,
     character_analysis |-> analysis.character_analysis,
     plot_analysis |-> analysis.plot_analysis]

\* EnhancedRAG.query
enhanced_query(n_results, use_book_knowledge, now, cache_file, metadata_file, collection, summary, retrieval, s, c, p, answer, disk) ==
    LET needed == use_book_knowledge /\ summary = NoSummary
        a == perform_full_analysis(FALSE, now, cache_file, metadata_file, collection, s, c, p, disk)
        found == enhanced_get_comprehensive_context(BunnyStore, retrieval.d,
                     retrieval.terms, n_results, retrieval.store_up)
        know == [cache_file |-> IF needed THEN a.cache_file ELSE cache_file,
                 metadata_file |-> IF needed THEN a.metadata_file ELSE metadata_file,
                 summary |-> IF needed THEN get_analysis_summary(a.ret) ELSE summary,
                 llm_calls |-> IF needed THEN a.llm_calls ELSE 0]
    IN  IF ~found.found
        THEN [know |-> know, found |-> FALSE, compose_calls |-> 0,
              path |-> PathEmpty,
              ret |-> [answer |-> NoInformationAnswer, chunks_used |-> 0,
                       context |-> <<>>, book_knowledge_used |-> FALSE]]
        ELSE [know |-> know, found |-> TRUE, compose_calls |-> 1,
              path |-> PathFound,
              ret |-> [answer |-> generate_response(answer), chunks_used |-> n_results,
                       context |-> found.context,
                       book_knowledge_used |-> use_book_knowledge,
                       model_used |-> "model",
                       context_length |-> Len(found.context),
                       book_knowledge_length |->
                           IF use_book_knowledge /\ know.summary # NoSummary
                           THEN 3 ELSE 0]]

\* ------------------------------------------------- uploads and listing
\* The metadata upload_single_book stores with a chunk.
StoredChunk(book_id, i, n) == [book_id |-> book_id, chunk_index |-> i, total_chunks |-> n]

\* The ids "<book_id>_chunk_<i>" already in the collection.
existing_ids(st) == {<<ch.book_id, ch.chunk_index>> : ch \in st}

\* MultiBookUploader.upload_single_book: the collection afterwards.
upload_single_book(st, book_id, n) ==
    st \cup {StoredChunk(book_id, i, n) : i \in {j \in 0..(n - 1) : <<book_id, j>> \notin existing_ids(st)}}

\* The ways collection.get(where={'book_id': b}, limit=1) can answer for
\* every stored book: one of the book's records each.
Samples(st) ==
    {f \in [{ch.book_id : ch \in st} -> st] : \A b \in DOMAIN f : f[b].book_id = b}

\* MultiBookAnalyzer.get_available_books: one entry per stored book, its
\* chunk_count read from the sampled record's total_chunks.
get_available_books(st, sample) ==
    {[book_id |-> b, chunk_count |-> sample[b].total_chunks,
      total_chunks |-> sample[b].total_chunks] : b \in DOMAIN sample}

VARIABLES
    vMetadata,   \* the metadata of the last is_cache_valid call
    vNow,        \* datetime.now() during that call
    vResult      \* what the two is_cache_valid methods returned

validVars == <<vMetadata, vNow, vResult>>

ValidIdle ==
    /\ vMetadata = EmptyMeta
    /\ vNow = 0
    /\ vResult = [analyzer |-> FALSE, kg |-> FALSE]

\* One call of each is_cache_valid on the same metadata at the same instant.
CallIsCacheValid(metadata, now) ==
    /\ vMetadata' = metadata
    /\ vNow' = now
    /\ vResult' = [analyzer |-> is_cache_valid(metadata, now),
                   kg |-> kg_is_cache_valid(metadata, now)]

VARIABLES
    program,          \* the front end this process runs: "multi" or "single"
    now,              \* datetime.now(), in days
    analysisCache,    \* book_id -> cache/book_analysis_<book_id>.pkl
    kgCache,          \* book_id -> cache/knowledge_graphs/kg_<book_id>.pkl
    kgSavedAt,        \* book_id -> the day the graph in that file was saved, or -1
    entityIndex,      \* the ids of the book_entities collection
    baCacheFile,      \* BookAnalyzer's cache file
    baMetadataFile,   \* BookAnalyzer's cache_metadata.json
    bunny,            \* the number of documents of the bunny_documents collection
    ret,              \* what the last operation returned
    op                \* the last operation and what it did

cacheVars == <<program, now, analysisCache, kgCache, kgSavedAt, entityIndex,
               baCacheFile, baMetadataFile, bunny, ret, op>>

\* The most documents the single-book collection is given.
MaxDocs == 2

\* op.llm: what the LLM calls of the operation did, when it made any.
NoLLM == [none |-> TRUE]
LLM(ext, s, c, p) == [ext |-> ext, s |-> s, c |-> c, p |-> p]
\* op.disk: what the cache writes of the operation did, when it made any.
NoDisk == [none |-> TRUE]

\* op.before: for a cleaning, the orphans removed by the cleaning of the same
\* book that directly preceded it, and -1 when none did.
IdleOp ==
    [name |-> "none", book_id |-> "none", force |-> FALSE, hit |-> FALSE,
     llm_calls |-> 0, orphaned |-> 0, wrote |-> FALSE, before |-> -1,
     llm |-> NoLLM, disk |-> NoDisk]

\* Nothing cached, nothing called.
CacheEmpty ==
    /\ now = 0
    /\ analysisCache = [b \in BookIds |-> NoFile]
    /\ kgCache = [b \in BookIds |-> NoFile]
    /\ kgSavedAt = [b \in BookIds |-> -1]
    /\ entityIndex = {}
    /\ baCacheFile = NoFile
    /\ baMetadataFile = NoFile
    /\ bunny = 1
    /\ ret = None
    /\ op = IdleOp

CacheIdle == program = "multi" /\ CacheEmpty

\* A day passes.
Tick ==
    /\ now < MaxTime
    /\ now' = now + 1
    /\ UNCHANGED <<program, analysisCache, kgCache, kgSavedAt, entityIndex,
                   baCacheFile, baMetadataFile, bunny, ret, op>>

\* analyze_single_book(book_id, force_refresh)
AnalyzeSingleBook(book_id, force_refresh, ext, s, c, p, disk) ==
    LET r == analyze_single_book(SeedStore, book_id, force_refresh, now,
                                 analysisCache[book_id], kgCache[book_id],
                                 entityIndex, ext, s, c, p, disk)
    IN  /\ program = "multi"
        /\ analysisCache' = [analysisCache EXCEPT ![book_id] = r.afile]
        /\ kgCache' = [kgCache EXCEPT ![book_id] = r.kfile]
        /\ kgSavedAt' = IF r.wrote /\ disk.kg = "ok"
                        THEN [kgSavedAt EXCEPT ![book_id] = now] ELSE kgSavedAt
        /\ entityIndex' = r.index
        /\ ret' = r.ret
        /\ op' = [name |-> "analyze_single_book", book_id |-> book_id,
                  force |-> force_refresh, hit |-> r.hit, llm_calls |-> r.llm_calls,
                  orphaned |-> 0, wrote |-> r.wrote, before |-> -1,
                  llm |-> IF r.llm_calls > 0 THEN LLM(ext, s, c, p) ELSE NoLLM,
                  disk |-> IF r.wrote THEN disk ELSE NoDisk]
        /\ UNCHANGED <<program, now, baCacheFile, baMetadataFile, bunny>>

\* MultiBookAnalyzer.refresh_knowledge_graph(book_id)
RefreshKnowledgeGraph(book_id, ext, s, c, p, disk) ==
    LET r == refresh_knowledge_graph(SeedStore, book_id, now, analysisCache[book_id],
                                     kgCache[book_id], entityIndex, ext, s, c, p, disk)
    IN  /\ program = "multi"
        /\ analysisCache' = [analysisCache EXCEPT ![book_id] = r.afile]
        /\ kgCache' = [kgCache EXCEPT ![book_id] = r.kfile]
        /\ kgSavedAt' = IF r.wrote /\ disk.kg = "ok"
                        THEN [kgSavedAt EXCEPT ![book_id] = now] ELSE kgSavedAt
        /\ entityIndex' = r.index
        /\ ret' = r.ret
        /\ op' = [name |-> "refresh_knowledge_graph", book_id |-> book_id,
                  force |-> TRUE, hit |-> r.hit, llm_calls |-> r.llm_calls,
                  orphaned |-> 0, wrote |-> r.wrote, before |-> -1,
                  llm |-> IF r.llm_calls > 0 THEN LLM(ext, s, c, p) ELSE NoLLM,
                  disk |-> IF r.wrote THEN disk ELSE NoDisk]
        /\ UNCHANGED <<program, now, baCacheFile, baMetadataFile, bunny>>

\* BookKnowledgeGraph.extract_knowledge_graph(book_id, context, force_refresh)
ExtractKnowledgeGraph(book_id, force_refresh, response, outcome) ==
    LET r == extract_knowledge_graph(book_id, force_refresh, now, kgCache[book_id],
                                     entityIndex, response, outcome)
    IN  /\ program = "multi"
        /\ kgCache' = [kgCache EXCEPT ![book_id] = r.file]
        /\ kgSavedAt' = IF r.wrote /\ outcome = "ok"
                        THEN [kgSavedAt EXCEPT ![book_id] = now] ELSE kgSavedAt
        /\ entityIndex' = r.index
        /\ ret' = r.ret
        /\ op' = [name |-> "extract_knowledge_graph", book_id |-> book_id,
                  force |-> force_refresh, hit |-> (r.llm_calls = 0),
                  llm_calls |-> r.llm_calls, orphaned |-> 0, wrote |-> r.wrote,
                  before |-> -1,
                  llm |-> IF r.llm_calls > 0 THEN LLM(response, "none", "none", "none")
                          ELSE NoLLM,
                  disk |-> IF r.wrote THEN [kg |-> outcome] ELSE NoDisk]
        /\ UNCHANGED <<program, now, analysisCache, baCacheFile, baMetadataFile, bunny>>

\* BookKnowledgeGraph.get_knowledge_graph(book_id)
GetKnowledgeGraph(book_id) ==
    /\ program = "multi"
    /\ ret' = get_knowledge_graph(kgCache[book_id])
    /\ op' = [name |-> "get_knowledge_graph", book_id |-> book_id,
              force |-> FALSE, hit |-> FALSE, llm_calls |-> 0, orphaned |-> 0,
              wrote |-> FALSE, before |-> -1, llm |-> NoLLM, disk |-> NoDisk]
    /\ UNCHANGED <<program, now, analysisCache, kgCache, kgSavedAt, entityIndex,
                   baCacheFile, baMetadataFile, bunny>>

\* BookKnowledgeGraph.get_entity_relationships(entity_id, book_id)
GetEntityRelationships(entity_id, book_id) ==
    /\ program = "multi"
    /\ ret' = get_entity_relationships(kgCache[book_id], entity_id)
    /\ op' = [name |-> "get_entity_relationships", book_id |-> book_id,
              force |-> FALSE, hit |-> FALSE, llm_calls |-> 0, orphaned |-> 0,
              wrote |-> FALSE, before |-> -1, llm |-> NoLLM, disk |-> NoDisk]
    /\ UNCHANGED <<program, now, analysisCache, kgCache, kgSavedAt, entityIndex,
                   baCacheFile, baMetadataFile, bunny>>

\* BookKnowledgeGraph.validate_and_clean_knowledge_graph(book_id)
ValidateAndClean(book_id, outcome) ==
    LET r == validate_and_clean_knowledge_graph(kgCache[book_id], outcome)
    IN  /\ program = "multi"
        /\ kgCache' = [kgCache EXCEPT ![book_id] = r.file]
        /\ ret' = r.ret
        /\ op' = [name |-> "validate_and_clean_knowledge_graph", book_id |-> book_id,
                  force |-> FALSE, hit |-> FALSE, llm_calls |-> 0,
                  orphaned |-> r.orphaned_count, wrote |-> r.wrote,
                  before |-> IF /\ op.name = "validate_and_clean_knowledge_graph"
                                /\ op.book_id = book_id
                             THEN op.orphaned ELSE -1,
                  llm |-> NoLLM,
                  disk |-> IF r.wrote THEN [kg |-> outcome] ELSE NoDisk]
        /\ UNCHANGED <<program, now, analysisCache, kgSavedAt, entityIndex,
                       baCacheFile, baMetadataFile, bunny>>

\* BookKnowledgeGraph.get_force_graph_data(book_id)
GetForceGraphData(book_id, outcome) ==
    LET r == get_force_graph_data(kgCache[book_id], outcome)
    IN  /\ program = "multi"
        /\ kgCache' = [kgCache EXCEPT ![book_id] = r.file]
        /\ ret' = r.ret
        /\ op' = [name |-> "get_force_graph_data", book_id |-> book_id,
                  force |-> FALSE, hit |-> FALSE, llm_calls |-> 0,
                  orphaned |-> r.orphaned_count, wrote |-> r.wrote, before |-> -1,
                  llm |-> NoLLM,
                  disk |-> IF r.wrote THEN [kg |-> outcome] ELSE NoDisk]
        /\ UNCHANGED <<program, now, analysisCache, kgSavedAt, entityIndex,
                       baCacheFile, baMetadataFile, bunny>>

\* BookAnalyzer.perform_full_analysis(force_refresh)
PerformFullAnalysis(force_refresh, s, c, p, disk) ==
    LET r == perform_full_analysis(force_refresh, now, baCacheFile, baMetadataFile,
                                   bunny, s, c, p, disk)
    IN  /\ program = "single"
        /\ baCacheFile' = r.cache_file
        /\ baMetadataFile' = r.metadata_file
        /\ ret' = r.ret
        /\ op' = [name |-> "perform_full_analysis", book_id |-> "bunny",
                  force |-> force_refresh, hit |-> r.hit, llm_calls |-> r.llm_calls,
                  orphaned |-> 0, wrote |-> r.wrote, before |-> -1,
                  llm |-> IF r.llm_calls > 0 THEN LLM(None, s, c, p) ELSE NoLLM,
                  disk |-> IF r.wrote THEN disk ELSE NoDisk]
        /\ UNCHANGED <<program, now, analysisCache, kgCache, kgSavedAt, entityIndex, bunny>>

\* upload_to_chroma.py adds a document to the bunny_documents collection.
UploadToBunny ==
    /\ program = "single"
    /\ bunny < MaxDocs
    /\ bunny' = bunny + 1
    /\ UNCHANGED <<program, now, analysisCache, kgCache, kgSavedAt, entityIndex,
                   baCacheFile, baMetadataFile, ret, op>>

\* ------------------------------------------------ the web application
VARIABLES
    rag_instance,     \* app.py's global: 0 is None, else the id of an instance
    constructions,    \* how many MultiBookRAG objects have been constructed
    initialized,      \* the instances initialize_book_knowledge completed on
    tpc,              \* thread -> its position in get_rag_instance
    tlocal,           \* thread -> the instance it constructed and not yet assigned
    tret,             \* thread -> the instance its last call returned, or 0
    hpc,              \* the refresh handler's position
    hbook,            \* the book_id of the refresh request
    worker,           \* the executor's worker: "none", "running" or "finished"
    workerResult,     \* what the finished worker left in the future
    elapsed,          \* minutes since the handler submitted the worker
    response          \* the response the handler has chosen

appVars == <<rag_instance, constructions, initialized, tpc, tlocal, tret,
             hpc, hbook, worker, workerResult, elapsed, response>>

\* The request threads calling get_rag_instance.
NumThreads == 2
Threads == 1..NumThreads

\* future.result(timeout=600): ten minutes.
refresh_timeout == 10
\* The minutes a refresh request is followed for.
MaxElapsed == 12

NoResponse == [status |-> 0, success |-> FALSE]

AppIdle ==
    /\ rag_instance = 0
    /\ constructions = 0
    /\ initialized = {}
    /\ tpc = [t \in Threads |-> "idle"]
    /\ tlocal = [t \in Threads |-> 0]
    /\ tret = [t \in Threads |-> 0]
    /\ hpc = "idle"
    /\ hbook = "none"
    /\ worker = "none"
    /\ workerResult = "none"
    /\ elapsed = 0
    /\ response = NoResponse

refreshVars == <<hpc, hbook, worker, workerResult, elapsed, response>>

\* A request thread enters get_rag_instance.
GetRagCall(t) ==
    /\ tpc[t] \in {"idle", "returned"}
    /\ tpc' = [tpc EXCEPT ![t] = "check"]
    /\ tret' = [tret EXCEPT ![t] = 0]
    /\ UNCHANGED <<rag_instance, constructions, initialized, tlocal>>
    /\ UNCHANGED refreshVars

\* if rag_instance is None:
GetRagCheck(t) ==
    /\ tpc[t] = "check"
    /\ tpc' = [tpc EXCEPT ![t] = IF rag_instance = 0 THEN "construct" ELSE "return"]
    /\ UNCHANGED <<rag_instance, constructions, initialized, tlocal, tret>>
    /\ UNCHANGED refreshVars

\* load_dotenv(); MultiBookRAG() builds a new object ...
GetRagConstruct(t) ==
    /\ tpc[t] = "construct"
    /\ constructions' = constructions + 1
    /\ tlocal' = [tlocal EXCEPT ![t] = constructions + 1]
    /\ tpc' = [tpc EXCEPT ![t] = "assign"]
    /\ UNCHANGED <<rag_instance, initialized, tret>>
    /\ UNCHANGED refreshVars

\* ... which is then stored in the global.
GetRagAssign(t) ==
    /\ tpc[t] = "assign"
    /\ rag_instance' = tlocal[t]
    /\ tlocal' = [tlocal EXCEPT ![t] = 0]
    /\ tpc' = [tpc EXCEPT ![t] = "init"]
    /\ UNCHANGED <<constructions, initialized, tret>>
    /\ UNCHANGED refreshVars

\* rag_instance.initialize_book_knowledge(), on whatever the global holds now.
GetRagInitialize(t) ==
    /\ tpc[t] = "init"
    /\ initialized' = initialized \cup {rag_instance}
    /\ tpc' = [tpc EXCEPT ![t] = "return"]
    /\ UNCHANGED <<rag_instance, constructions, tlocal, tret>>
    /\ UNCHANGED refreshVars

\* return rag_instance
GetRagReturn(t) ==
    /\ tpc[t] = "return"
    /\ tret' = [tret EXCEPT ![t] = rag_instance]
    /\ tpc' = [tpc EXCEPT ![t] = "returned"]
    /\ UNCHANGED <<rag_instance, constructions, initialized, tlocal>>
    /\ UNCHANGED refreshVars

\* refresh_knowledge_graph_worker: rag.refresh_knowledge_graph(book_id), a
\* method MultiBookRAG does not define, so the call raises AttributeError.
refresh_knowledge_graph_worker(rag, book_id) == "AttributeError"

\* What the handler answers once future.result has returned or raised.
refresh_response(result) ==
    IF result = "AttributeError" THEN [status |-> 500, success |-> FALSE]
    ELSE IF result = "error" THEN [status |-> 400, success |-> FALSE]
    ELSE [status |-> 200, success |-> TRUE]

\* POST /api/knowledge-graph/<book_id>/refresh: get_rag_instance() by the
\* only request thread, then the executor is created and the worker submitted.
RefreshBegin(book_id) ==
    /\ hpc \in {"idle", "returned"}
    /\ rag_instance' = IF rag_instance = 0 THEN constructions + 1 ELSE rag_instance
    /\ constructions' = IF rag_instance = 0 THEN constructions + 1 ELSE constructions
    /\ initialized' = IF rag_instance = 0 THEN initialized \cup {constructions + 1}
                      ELSE initialized
    /\ hbook' = book_id
    /\ worker' = "running"
    /\ workerResult' = "none"
    /\ elapsed' = 0
    /\ response' = NoResponse
    /\ hpc' = "result"
    /\ UNCHANGED <<tpc, tlocal, tret>>

\* The worker thread runs refresh_knowledge_graph_worker to its end.
WorkerFinish ==
    /\ worker = "running"
    /\ worker' = "finished"
    /\ workerResult' = refresh_knowledge_graph_worker(rag_instance, hbook)
    /\ UNCHANGED <<rag_instance, constructions, initialized, tpc, tlocal, tret,
                   hpc, hbook, elapsed, response>>

\* future.result(timeout=600) returns or re-raises what the worker left.
RefreshResult ==
    /\ hpc = "result"
    /\ worker = "finished"
    /\ response' = refresh_response(workerResult)
    /\ hpc' = "shutdown"
    /\ UNCHANGED <<rag_instance, constructions, initialized, tpc, tlocal, tret,
                   hbook, worker, workerResult, elapsed>>

\* future.result(timeout=600) raises FutureTimeoutError: the 408 response.
RefreshTimeout ==
    /\ hpc = "result"
    /\ worker # "finished"
    /\ elapsed >= refresh_timeout
    /\ response' = [status |-> 408, success |-> FALSE]
    /\ hpc' = "shutdown"
    /\ UNCHANGED <<rag_instance, constructions, initialized, tpc, tlocal, tret,
                   hbook, worker, workerResult, elapsed>>

\* Leaving "with ThreadPoolExecutor(...)": __exit__ calls shutdown(wait=True),
\* which joins the worker thread; only then does the handler return.
RefreshShutdown ==
    /\ hpc = "shutdown"
    /\ worker = "finished"
    /\ hpc' = "returned"
    /\ UNCHANGED <<rag_instance, constructions, initialized, tpc, tlocal, tret,
                   hbook, worker, workerResult, elapsed, response>>

\* A minute passes while the request is in progress.
Minute ==
    /\ hpc \in {"result", "shutdown"}
    /\ elapsed < MaxElapsed
    /\ elapsed' = elapsed + 1
    /\ UNCHANGED <<rag_instance, constructions, initialized, tpc, tlocal, tret,
                   hpc, hbook, worker, workerResult, response>>

\* ------------------------------------------------ one retrieval call
VARIABLES
    rIn,              \* the arguments of the call and the state of the store
    rOut,             \* what the call returned
    rpc               \* "ready" before the call, "done" after

retrieveVars == <<rIn, rOut, rpc>>

\* A key term is close to a chunk or far from it.
TermDistFns(st) == [st -> {0, MaxDist}]

NoRetrieval == [name |-> "none", found |-> FALSE, merged |-> <<>>, context |-> <<>>]

RetrieveIdle ==
    /\ rIn = [rag |-> "none"]
    /\ rOut = NoRetrieval
    /\ rpc = "done"

\* The calls of MultiBookRAG's retrieval ...
MultiRetrievals ==
    [rag : {"multi"}, d : DistFns(SeedStore),
     terms : SeqsUpTo(TermDistFns(SeedStore), MaxTerms),
     book_ids : BookIdLists, n_results : 0..MaxResults, store_up : BOOLEAN]

\* ... and of EnhancedRAG's.
EnhancedRetrievals ==
    [rag : {"enhanced"}, d : DistFns(BunnyStore),
     terms : SeqsUpTo([d : TermDistFns(BunnyStore), n : {2, 3}], MaxTerms),
     book_ids : {NoBookIds}, n_results : 0..(3 * MaxResults), store_up : BOOLEAN]

RetrieveRelevantChunks ==
    /\ rpc = "ready"
    /\ rIn.rag = "multi"
    /\ LET chunks == retrieve_relevant_chunks(SeedStore, rIn.d, rIn.book_ids,
                                              rIn.n_results, rIn.store_up)
       IN  rOut' = [name |-> "retrieve_relevant_chunks", found |-> chunks # <<>>,
                    merged |-> chunks, context |-> chunks]
    /\ rpc' = "done"
    /\ UNCHANGED rIn

GetComprehensiveContext ==
    /\ rpc = "ready"
    /\ rIn.rag = "multi"
    /\ LET r == get_comprehensive_context(SeedStore, rIn.d, rIn.terms, rIn.book_ids,
                                          rIn.n_results, rIn.store_up)
       IN  rOut' = [name |-> "get_comprehensive_context", found |-> r.found,
                    merged |-> r.merged, context |-> r.context]
    /\ rpc' = "done"
    /\ UNCHANGED rIn

EnhancedRetrieveRelevantChunks ==
    /\ rpc = "ready"
    /\ rIn.rag = "enhanced"
    /\ LET chunks == enhanced_retrieve_relevant_chunks(BunnyStore, rIn.d,
                                                       rIn.n_results, rIn.store_up)
       IN  rOut' = [name |-> "enhanced_retrieve_relevant_chunks",
                    found |-> chunks # <<>>, merged |-> chunks, context |-> chunks]
    /\ rpc' = "done"
    /\ UNCHANGED rIn

EnhancedGetComprehensiveContext ==
    /\ rpc = "ready"
    /\ rIn.rag = "enhanced"
    /\ LET r == enhanced_get_comprehensive_context(BunnyStore, rIn.d, rIn.terms,
                                                   rIn.n_results, rIn.store_up)
       IN  rOut' = [name |-> "enhanced_get_comprehensive_context", found |-> r.found,
                    merged |-> r.merged, context |-> r.context]
    /\ rpc' = "done"
    /\ UNCHANGED rIn

\* ------------------------------------------------- the RAG objects
VARIABLES
    book_analyses,       \* MultiBookRAG.book_analyses: book_id -> analysis
    analysis_created_at, \* book_id -> the created_at (day) of that analysis, -1 for an error result
    analysis_summary     \* EnhancedRAG.analysis_summary

ragVars == <<book_analyses, analysis_created_at, analysis_summary>>

RagIdle ==
    /\ book_analyses = <<>>
    /\ analysis_created_at = <<>>
    /\ analysis_summary = NoSummary

\* What the searches of a question see in SpecQuery: every chunk at distance
\* 0, with or without one key term, the store reachable or not.
QueryRetrievals(st) ==
    [d : {[ch \in st |-> 0]},
     terms : {<<>>, <<[ch \in st |-> 0]>>},
     store_up : BOOLEAN]

\* MultiBookRAG.query(question, book_ids, n_results, use_book_knowledge)
Query(book_ids, n_results, use_book_knowledge, retrieval, ext, s, c, p, answer, disk) ==
    LET r == multi_query(book_ids, n_results, use_book_knowledge, now,
                         [afiles |-> analysisCache, kfiles |-> kgCache,
                          saved |-> kgSavedAt, index |-> entityIndex,
                          book_analyses |-> book_analyses,
                          created |-> analysis_created_at, llm_calls |-> 0],
                         retrieval, ext, s, c, p, answer, disk)
    IN  /\ program = "multi"
        /\ analysisCache' = r.know.afiles
        /\ kgCache' = r.know.kfiles
        /\ kgSavedAt' = r.know.saved
        /\ entityIndex' = r.know.index
        /\ book_analyses' = r.know.book_analyses
        /\ analysis_created_at' = r.know.created
        /\ ret' = r.ret
        /\ op' = [name |-> "query", found |-> r.found, path |-> r.path,
                  init_calls |-> r.know.llm_calls, compose_calls |-> r.compose_calls,
                  llm_calls |-> r.know.llm_calls + r.compose_calls,
                  compose |-> IF r.compose_calls > 0 THEN answer ELSE "none",
                  use_book_knowledge |-> use_book_knowledge,
                  books |-> Range(r.ret.books_searched)]
        /\ UNCHANGED <<program, now, baCacheFile, baMetadataFile, bunny,
                       analysis_summary>>

\* EnhancedRAG.query(question, n_results, use_book_knowledge)
EnhancedQuery(n_results, use_book_knowledge, retrieval, s, c, p, answer, disk) ==
    LET r == enhanced_query(n_results, use_book_knowledge, now, baCacheFile,
                            baMetadataFile, bunny, analysis_summary, retrieval,
                            s, c, p, answer, disk)
    IN  /\ program = "single"
        /\ baCacheFile' = r.know.cache_file
        /\ baMetadataFile' = r.know.metadata_file
        /\ analysis_summary' = r.know.summary
        /\ ret' = r.ret
        /\ op' = [name |-> "enhanced_query", found |-> r.found, path |-> r.path,
                  init_calls |-> r.know.llm_calls, compose_calls |-> r.compose_calls,
                  llm_calls |-> r.know.llm_calls + r.compose_calls,
                  compose |-> IF r.compose_calls > 0 THEN answer ELSE "none",
                  use_book_knowledge |-> use_book_knowledge,
                  books |-> {}]
        /\ UNCHANGED <<program, now, analysisCache, kgCache, kgSavedAt, entityIndex,
                       bunny, book_analyses, analysis_created_at>>

\* ------------------------------------------- the multi-book collection
VARIABLES
    collection        \* multi_book_documents: the records the uploader has added

storeVars == <<collection>>

\* The most chunks a book file is split into.
MaxChunks == 3

StoreIdle == collection = {}

\* upload_single_book(file_path) for a file of book book_id that chunk_text
\* splits into n chunks: every id "<book_id>_chunk_<i>" not yet in the
\* collection is added, with total_chunks = n in its metadata; the records
\* already stored stay as they are.
UploadSingleBook(book_id, n) ==
    /\ program = "multi"
    /\ collection' = upload_single_book(collection, book_id, n)
    /\ ret' = [book_id |-> book_id, chunks_uploaded |-> n, status |-> "success"]
    /\ op' = [name |-> "upload_single_book", book_id |-> book_id, chunks |-> n]
    /\ UNCHANGED <<program, now, analysisCache, kgCache, kgSavedAt, entityIndex,
                   baCacheFile, baMetadataFile, bunny>>

\* MultiBookAnalyzer.get_available_books(): sample picks, for each book, the
\* record that collection.get(where book_id, limit=1) returns.
GetAvailableBooks(sample) ==
    /\ program = "multi"
    /\ sample \in Samples(collection)
    /\ ret' = get_available_books(collection, sample)
    /\ op' = [name |-> "get_available_books", book_id |-> "none", chunks |-> 0]
    /\ UNCHANGED <<program, now, analysisCache, kgCache, kgSavedAt, entityIndex,
                   baCacheFile, baMetadataFile, bunny, collection>>

\* -------------------------------- a cleaning that overlaps with a refresh
VARIABLES
    cpc,          \* the cleaning request's position: "idle", "loaded" or "done"
    ckg,          \* the cache file as the cleaning read it
    crefreshed    \* the graph a refresh saved while the cleaning was under way

raceVars == <<cpc, ckg, crefreshed>>

RaceIdle ==
    /\ cpc = "idle"
    /\ ckg = NoFile
    /\ crefreshed = None

\* validate_and_clean_knowledge_graph(book_id), first part: kg_data =
\* self.get_knowledge_graph(book_id) reads the cache file.
CleanLoad(book_id) ==
    /\ program = "multi"
    /\ cpc \in {"idle", "done"}
    /\ cpc' = "loaded"
    /\ ckg' = kgCache[book_id]
    /\ crefreshed' = None
    /\ UNCHANGED <<program, now, analysisCache, kgCache, kgSavedAt, entityIndex,
                   baCacheFile, baMetadataFile, bunny, ret, op>>

\* validate_and_clean_knowledge_graph(book_id), second part: the orphaned
\* relationships of the graph read are dropped and, if there were any, the
\* cleaned graph is written over the cache file as it is by now.
CleanFinish(book_id, outcome) ==
    LET r == validate_and_clean_knowledge_graph(ckg, outcome)
    IN  /\ program = "multi"
        /\ cpc = "loaded"
        /\ cpc' = "done"
        /\ kgCache' = IF r.wrote
                       THEN [kgCache EXCEPT
                               ![book_id] = write_file(kgCache[book_id], r.ret, outcome)]
                       ELSE kgCache
        /\ ret' = r.ret
        /\ op' = [name |-> "validate_and_clean_knowledge_graph", book_id |-> book_id,
                  force |-> FALSE, hit |-> FALSE, llm_calls |-> 0,
                  orphaned |-> r.orphaned_count, wrote |-> r.wrote, before |-> -1,
                  llm |-> NoLLM,
                  disk |-> IF r.wrote THEN [kg |-> outcome] ELSE NoDisk]
        /\ UNCHANGED <<program, now, analysisCache, kgSavedAt, entityIndex,
                       baCacheFile, baMetadataFile, bunny, ckg, crefreshed>>

\* refresh_knowledge_graph(book_id) by another thread or process; when a
\* cleaning of the book is under way, the graph it saved is remembered.
RefreshBesideClean(book_id, ext) ==
    /\ RefreshKnowledgeGraph(book_id, ext, "text1", "text1", "text1", DiskOk)
    /\ crefreshed' = IF cpc = "loaded" THEN ret' ELSE crefreshed
    /\ UNCHANGED <<cpc, ckg>>

vars == <<vMetadata, vNow, vResult, program, now, analysisCache, kgCache,
          kgSavedAt, entityIndex, baCacheFile, baMetadataFile, bunny, ret, op,
          rag_instance, constructions, initialized, tpc, tlocal, tret,
          hpc, hbook, worker, workerResult, elapsed, response,
          rIn, rOut, rpc, book_analyses, analysis_created_at, analysis_summary,
          collection, cpc, ckg, crefreshed>>

\* ------------------------------------------- the cache validity law alone
ValidInit == ValidIdle /\ CacheIdle /\ AppIdle /\ RetrieveIdle /\ RagIdle /\ StoreIdle /\ RaceIdle

ValidNext ==
    /\ \E metadata \in Metadatas, t \in Times : CallIsCacheValid(metadata, t)
    /\ UNCHANGED cacheVars
    /\ UNCHANGED appVars
    /\ UNCHANGED retrieveVars
    /\ UNCHANGED ragVars
    /\ UNCHANGED storeVars
    /\ UNCHANGED raceVars

SpecValid == ValidInit /\ [][ValidNext]_vars

\* C1: both is_cache_valid methods return true exactly when the metadata has a
\* created_at that parses as a timestamp and now - created_at is defined and
\* strictly less than 7 days; they return false at 7 days and beyond, and
\* false (a Boolean, never an exception) for empty metadata and for an absent,
\* empty or unparseable created_at.
C1_CacheValidityLaw ==
    LET fresh ==
            /\ vMetadata # EmptyMeta
            /\ "created_at" \in DOMAIN vMetadata
            /\ vMetadata.created_at.kind = "naive"
            /\ vNow - vMetadata.created_at.t < 7
    IN  /\ vResult.analyzer \in BOOLEAN
        /\ vResult.kg \in BOOLEAN
        /\ vResult.analyzer = fresh
        /\ vResult.kg = fresh

\* An entry exactly 7 days old has been checked and found invalid.
C1_Witness ==
    /\ "created_at" \in DOMAIN vMetadata
    /\ vMetadata.created_at.kind = "naive"
    /\ vNow - vMetadata.created_at.t = 7
    /\ vResult.analyzer = FALSE
    /\ vResult.kg = FALSE
\* ------------------------------------- knowledge-graph cache operations
\* The graphs and failures an extraction call is given in SpecKG.
KGResponses == ExtractionFailures \cup Graphs
\* The same for extract_knowledge_graph: graphs of at most one relationship.
ExtractResponses == {r \in KGResponses : "failure" \in DOMAIN r \/ Len(r.relationships) <= 1}

KGInit == ValidIdle /\ CacheIdle /\ AppIdle /\ RetrieveIdle /\ RagIdle /\ StoreIdle /\ RaceIdle

KGNext ==
    /\ \/ \E ext \in KGResponses :
              RefreshKnowledgeGraph("b1", ext, "text1", "text1", "text1", DiskOk)
       \/ \E f \in BOOLEAN, answer \in ExtractResponses :
              ExtractKnowledgeGraph("b1", f, answer, "ok")
       \/ ValidateAndClean("b1", "ok")
       \/ GetForceGraphData("b1", "ok")
    /\ UNCHANGED validVars
    /\ UNCHANGED appVars
    /\ UNCHANGED retrieveVars
    /\ UNCHANGED ragVars
    /\ UNCHANGED storeVars
    /\ UNCHANGED raceVars

SpecKG == KGInit /\ [][KGNext]_vars

\* The knowledge graph a cache file holds, whichever writer wrote it.
CachedGraph(file) ==
    IF ~Unpickles(file) THEN None
    ELSE IF "knowledge_graph" \in DOMAIN file THEN file.knowledge_graph
    ELSE file

\* C4: every relationship of the graph validate_and_clean_knowledge_graph
\* returns has its 'from' and its 'to' among the keys of the returned entities.
C4_OrphanInvariant ==
    op.name = "validate_and_clean_knowledge_graph" =>
        \A i \in 1..Len(ret.relationships) :
            /\ ret.relationships[i].from \in DOMAIN ret.entities
            /\ ret.relationships[i].to \in DOMAIN ret.entities

\* A cleaning that removed an orphan and kept a relationship.
C4_Witness ==
    /\ op.name = "validate_and_clean_knowledge_graph"
    /\ op.orphaned > 0
    /\ Len(ret.relationships) > 0

C6_ForceGraphRoundTrip ==
    [][ ( /\ now' = now
          /\ op'.name = "get_force_graph_data"
          /\ CachedGraph(kgCache[op'.book_id]) # None )
        => LET G == CachedGraph(kgCache[op'.book_id])
               N == Cardinality(DOMAIN G.entities)
               M == Len(valid_relationships(G.entities, G.relationships))
               ids == {ret'.nodes[i].id : i \in 1..Len(ret'.nodes)}
           IN  /\ Len(ret'.nodes) = N
               /\ Len(ret'.links) = M
               /\ \A i \in 1..Len(ret'.links) :
                      ret'.links[i].source \in ids /\ ret'.links[i].target \in ids ]_vars

\* The same, for a cache file written by _save_knowledge_graph_to_cache or by
\* validate_and_clean_knowledge_graph (the graph at the top level).
ForceGraphRoundTripOfSavedGraph ==
    [][ ( /\ now' = now
          /\ op'.name = "get_force_graph_data"
          /\ get_knowledge_graph(kgCache[op'.book_id]) # None )
        => LET G == kgCache[op'.book_id]
               N == Cardinality(DOMAIN G.entities)
               M == Len(valid_relationships(G.entities, G.relationships))
               ids == {ret'.nodes[i].id : i \in 1..Len(ret'.nodes)}
           IN  /\ Len(ret'.nodes) = N
               /\ Len(ret'.links) = M
               /\ \A i \in 1..Len(ret'.links) :
                      ret'.links[i].source \in ids /\ ret'.links[i].target \in ids ]_vars

\* The LLM answers that do not parse as JSON or lack a key.
UnparsedAnswers == {[failure |-> k] : k \in {"badjson", "nokeys"}}

\* C11: whenever the LLM response of a knowledge-graph extraction cannot be
\* parsed as JSON or lacks the entities or the relationships key,
\* extract_knowledge_graph and refresh_knowledge_graph return a result that
\* carries an 'error' marker.
C11_ExtractionFailureMarked ==
    ( /\ op.name \in {"extract_knowledge_graph", "refresh_knowledge_graph"}
      /\ op.llm # NoLLM
      /\ op.llm.ext \in UnparsedAnswers )
    => "error" \in DOMAIN ret

\* The same for extract_knowledge_graph alone.
ExtractKnowledgeGraphFailureMarked ==
    ( /\ op.name = "extract_knowledge_graph"
      /\ op.llm # NoLLM
      /\ op.llm.ext \in ExtractionFailures )
    => ret = [error |-> op.book_id]

CleaningWithoutOrphans ==
    /\ op.name = "validate_and_clean_knowledge_graph"
    /\ ~op.wrote
    /\ get_knowledge_graph(kgCache[op.book_id]) # None
    /\ Len(ret.relationships) > 0

\* C22: when the extraction step fails during refresh_knowledge_graph, the
\* knowledge graph cached for the book before is left unchanged.
C22_FailedRefreshKeepsGraph ==
    [][ ( /\ op'.name = "refresh_knowledge_graph"
          /\ op'.llm # NoLLM
          /\ op'.llm.ext \in ExtractionFailures
          /\ get_knowledge_graph(kgCache[op'.book_id]) # None )
        => kgCache'[op'.book_id] = kgCache[op'.book_id] ]_vars

\* A refresh whose extraction failed left the empty graph in the cache.
FailedRefreshCachedEmptyGraph ==
    /\ op.name = "refresh_knowledge_graph"
    /\ op.llm # NoLLM
    /\ op.llm.ext \in ExtractionFailures
    /\ kgCache[op.book_id] = EmptyGraph

\* C23: after extract_knowledge_graph has succeeded and written its cache
\* entry, get_knowledge_graph returns that same graph.
C23_ExtractedGraphReadable ==
    ( /\ op.name = "extract_knowledge_graph"
      /\ op.wrote
      /\ op.disk = [kg |-> "ok"] )
    => get_knowledge_graph(kgCache[op.book_id]) = ret

\* What does hold: the entry extract_knowledge_graph wrote holds the graph
\* it returned under 'knowledge_graph', and get_knowledge_graph gives None.
ExtractedGraphWrapped ==
    ( /\ op.name = "extract_knowledge_graph"
      /\ op.wrote
      /\ op.disk = [kg |-> "ok"] )
    => /\ kgCache[op.book_id].knowledge_graph = ret
       /\ get_knowledge_graph(kgCache[op.book_id]) = None

\* The entity ids the book_entities index holds for a book, and those of
\* the book's cached knowledge graph.
IndexedEntities(book_id) == {e \in EntityIds : <<book_id, e>> \in entityIndex}
CachedEntities(book_id) ==
    IF CachedGraph(kgCache[book_id]) = None THEN {}
    ELSE DOMAIN CachedGraph(kgCache[book_id]).entities

\* C29: after any sequence of extractions and refreshes the book_entities
\* index holds for a book exactly the entities of the book's cached graph.
C29_IndexMatchesCachedGraph ==
    \A b \in BookIds : IndexedEntities(b) = CachedEntities(b)

\* What does hold: every entity of the cached graph is in the index.
CachedEntitiesIndexed ==
    \A b \in BookIds : CachedEntities(b) \subseteq IndexedEntities(b)

\* After a refresh that found fewer entities, the index still holds an
\* entity the cached graph no longer has.
StaleEntityIndexed ==
    /\ op.name = "refresh_knowledge_graph"
    /\ CachedEntities("b1") = {"a"}
    /\ IndexedEntities("b1") = {"a", "b"}
\* --------------------------------------------------- cached book analyses
\* What the entity extraction of an analysis is given in SpecAnalysis.
AnalysisGraphs ==
    { [failure |-> "raise"],
      [entities |-> [e \in {"a", "b"} |-> EntityData(e)],
       relationships |-> <<[from |-> "a", to |-> "b", type |-> "knows"]>>] }

AnalysisInit ==
    ValidIdle /\ program \in {"multi", "single"} /\ CacheEmpty /\ AppIdle
    /\ RetrieveIdle /\ RagIdle /\ StoreIdle /\ RaceIdle

AnalysisNext ==
    /\ \/ Tick
       \/ \E b \in {"b1", GhostBook}, f \in BOOLEAN, ext \in AnalysisGraphs,
             s \in {"text1", "raise"}, c \in {"text2", "raise"}, p \in {"text1", "raise"} :
              AnalyzeSingleBook(b, f, ext, s, c, p, DiskOk)
       \/ \E f \in BOOLEAN, s \in TextResponses :
              PerformFullAnalysis(f, s, "text1", "text1", BaDiskOk)
       \/ UploadToBunny
    /\ UNCHANGED validVars
    /\ UNCHANGED appVars
    /\ UNCHANGED retrieveVars
    /\ UNCHANGED ragVars
    /\ UNCHANGED storeVars
    /\ UNCHANGED raceVars

SpecAnalysis == AnalysisInit /\ [][AnalysisNext]_vars

\* The analysis cache holds an entry for book b that is less than 7 days old.
ValidAnalysisEntry(b) ==
    /\ Unpickles(analysisCache[b])
    /\ analysisCache[b].metadata.created_at.kind = "naive"
    /\ now - analysisCache[b].metadata.created_at.t < cache_expiry_days

\* BookAnalyzer's cache holds an entry less than 7 days old, made from the
\* collection as it is now.
ValidBookAnalyzerEntry ==
    /\ Unpickles(baCacheFile)
    /\ Unpickles(baMetadataFile)
    /\ baMetadataFile.created_at.kind = "naive"
    /\ now - baMetadataFile.created_at.t < cache_expiry_days
    /\ baMetadataFile.content_hash = get_cache_hash(bunny)

\* C2: an analyze_single_book (or perform_full_analysis) call without
\* force_refresh that finds a valid cache entry returns the stored analysis,
\* makes no LLM call and writes no cache file.
C2_CacheHitPath ==
    [][ /\ ( /\ now' = now
             /\ op'.name = "analyze_single_book"
             /\ ~op'.force
             /\ ValidAnalysisEntry(op'.book_id) )
           => ( /\ ret' = analysisCache[op'.book_id].analysis
                /\ op'.llm_calls = 0
                /\ ~op'.wrote
                /\ analysisCache' = analysisCache
                /\ kgCache' = kgCache
                /\ entityIndex' = entityIndex )
        /\ ( /\ now' = now
             /\ bunny' = bunny
             /\ op'.name = "perform_full_analysis"
             /\ ~op'.force
             /\ ValidBookAnalyzerEntry )
           => ( /\ ret' = baCacheFile
                /\ op'.llm_calls = 0
                /\ ~op'.wrote
                /\ baCacheFile' = baCacheFile
                /\ baMetadataFile' = baMetadataFile ) ]_vars

\* An analysis served from an entry cached on an earlier day.
C2_Witness ==
    /\ op.name = "analyze_single_book"
    /\ ~op.force
    /\ op.hit
    /\ op.llm_calls = 0
    /\ ValidAnalysisEntry(op.book_id)
    /\ now > analysisCache[op.book_id].metadata.created_at.t
    /\ ret = analysisCache[op.book_id].analysis

\* The same for BookAnalyzer.perform_full_analysis.
BookAnalyzerCacheHit ==
    /\ op.name = "perform_full_analysis"
    /\ ~op.force
    /\ op.hit
    /\ ValidBookAnalyzerEntry
    /\ now > baMetadataFile.created_at.t
    /\ ret = baCacheFile

\* C21: BookAnalyzer.is_cache_valid returns true only if both cache files
\* exist, the stored content hash is the collection's current hash and the
\* entry is strictly less than 7 days old (false at exactly 7 days).
C21_BookAnalyzerValidityLaw ==
    ba_is_cache_valid(baCacheFile, baMetadataFile, now, bunny) =>
        /\ baCacheFile # NoFile
        /\ baMetadataFile # NoFile
        /\ baMetadataFile # CorruptFile
        /\ baMetadataFile.content_hash = get_cache_hash(bunny)
        /\ now - baMetadataFile.created_at.t < cache_expiry_days

\* What does hold: the same with an age of at most 7 days.
BookAnalyzerValidUpToSevenDays ==
    ba_is_cache_valid(baCacheFile, baMetadataFile, now, bunny) =>
        /\ baCacheFile # NoFile
        /\ baMetadataFile # NoFile
        /\ baMetadataFile # CorruptFile
        /\ baMetadataFile.content_hash = get_cache_hash(bunny)
        /\ now - baMetadataFile.created_at.t <= cache_expiry_days

\* perform_full_analysis served an entry exactly 7 days old from the cache.
SevenDayOldEntryServed ==
    /\ op.name = "perform_full_analysis"
    /\ op.hit
    /\ baMetadataFile # NoFile
    /\ now - baMetadataFile.created_at.t = cache_expiry_days

\* C12: a cache-missing analyze_single_book in which summary, character or
\* plot call fails still returns an analysis: the failed field holds its
\* inline error string, every other field the text of its own LLM call.
C12_PartialAnalysisReturned ==
    (op.name = "analyze_single_book" /\ op.llm # NoLLM) =>
        /\ "error" \notin DOMAIN ret
        /\ ret.book_summary =
               IF op.llm.s = "raise" THEN "Error creating summary" ELSE op.llm.s
        /\ ret.character_analysis =
               IF op.llm.c = "raise" THEN "Error analyzing characters" ELSE op.llm.c
        /\ ret.plot_analysis =
               IF op.llm.p = "raise" THEN "Error analyzing plot" ELSE op.llm.p

\* An analysis whose character call alone failed.
C12_Witness ==
    /\ op.name = "analyze_single_book"
    /\ op.llm # NoLLM
    /\ op.llm.s = "text1" /\ op.llm.c = "raise" /\ op.llm.p = "text1"
    /\ ret.book_summary = "text1"
    /\ ret.character_analysis = "Error analyzing characters"
    /\ ret.plot_analysis = "text1"

\* C14: an analyze_single_book call that misses the cache (or is forced) for
\* a book without chunks returns the not-found error naming the book, makes
\* no LLM call and leaves the caches as they were.
C14_NoChunksNotFound ==
    [][ ( /\ now' = now
          /\ op'.name = "analyze_single_book"
          /\ (op'.force \/ ~ValidAnalysisEntry(op'.book_id))
          /\ \A ch \in SeedStore : ch.book_id # op'.book_id )
        => ( /\ ret' = [error |-> op'.book_id]
             /\ op'.llm_calls = 0
             /\ ~op'.wrote
             /\ analysisCache' = analysisCache
             /\ kgCache' = kgCache
             /\ entityIndex' = entityIndex ) ]_vars

\* A forced analysis of the book without chunks.
C14_Witness ==
    /\ op.name = "analyze_single_book"
    /\ op.book_id = GhostBook
    /\ op.force
    /\ ret = [error |-> GhostBook]
    /\ op.llm_calls = 0
    /\ analysisCache[GhostBook] = NoFile

\* The analysis holds the inline error string of a failed LLM call.
HoldsErrorString(analysis) ==
    \/ analysis.book_summary = "Error creating summary"
    \/ analysis.character_analysis = "Error analyzing characters"
    \/ analysis.plot_analysis = "Error analyzing plot"

SingletonInit == ValidIdle /\ CacheIdle /\ AppIdle /\ RetrieveIdle /\ RagIdle /\ StoreIdle /\ RaceIdle

SingletonNext ==
    /\ \E t \in Threads :
          \/ GetRagCall(t)
          \/ GetRagCheck(t)
          \/ GetRagConstruct(t)
          \/ GetRagAssign(t)
          \/ GetRagInitialize(t)
          \/ GetRagReturn(t)
    /\ UNCHANGED validVars
    /\ UNCHANGED cacheVars
    /\ UNCHANGED retrieveVars
    /\ UNCHANGED ragVars
    /\ UNCHANGED storeVars
    /\ UNCHANGED raceVars

SpecSingleton == SingletonInit /\ [][SingletonNext]_vars

\* C10: under any interleaving of concurrent get_rag_instance callers the
\* MultiBookRAG object is constructed at most once and all callers are
\* returned the same instance.
C10_ConstructedAtMostOnce ==
    /\ constructions <= 1
    /\ \A t \in Threads, u \in Threads :
          (tret[t] # 0 /\ tret[u] # 0) => tret[t] = tret[u]

\* C25: every caller to whom get_rag_instance returns an instance receives
\* it only after initialize_book_knowledge has completed on that instance.
C25_ReturnedInstanceInitialized ==
    \A t \in Threads : tret[t] # 0 => tret[t] \in initialized

\* A caller got the instance while the thread that stored it in the global
\* had not yet run initialize_book_knowledge.
InstanceReturnedDuringInitialization ==
    \E t \in Threads, u \in Threads :
        /\ tret[t] # 0
        /\ tret[t] \notin initialized
        /\ tpc[u] = "init"

\* ------------------------------------ the knowledge-graph refresh request
RefreshInit == ValidIdle /\ CacheIdle /\ AppIdle /\ RetrieveIdle /\ RagIdle /\ StoreIdle /\ RaceIdle

RefreshNext ==
    /\ \/ \E book_id \in BookIds : RefreshBegin(book_id)
       \/ WorkerFinish
       \/ RefreshResult
       \/ RefreshTimeout
       \/ RefreshShutdown
       \/ Minute
    /\ UNCHANGED validVars
    /\ UNCHANGED cacheVars
    /\ UNCHANGED retrieveVars
    /\ UNCHANGED ragVars
    /\ UNCHANGED storeVars
    /\ UNCHANGED raceVars

SpecRefresh == RefreshInit /\ [][RefreshNext]_vars

\* C9: when the worker has not finished 10 minutes after it was submitted,
\* the handler returns the 408 response without waiting for the worker: it
\* is never held, with its 408 response chosen, by a worker still running.
C9_TimeoutReturnsWithoutWaiting ==
    ~( /\ hpc = "shutdown"
       /\ response.status = 408
       /\ worker = "running" )
\* ------------------------------------------------------ retrieval calls
RetrieveInit ==
    /\ ValidIdle /\ CacheIdle /\ AppIdle /\ RagIdle /\ StoreIdle /\ RaceIdle
    /\ rIn \in MultiRetrievals \cup EnhancedRetrievals
    /\ rOut = NoRetrieval
    /\ rpc = "ready"

RetrieveNext ==
    /\ \/ RetrieveRelevantChunks
       \/ GetComprehensiveContext
       \/ EnhancedRetrieveRelevantChunks
       \/ EnhancedGetComprehensiveContext
    /\ UNCHANGED validVars
    /\ UNCHANGED cacheVars
    /\ UNCHANGED appVars
    /\ UNCHANGED ragVars
    /\ UNCHANGED storeVars
    /\ UNCHANGED raceVars

SpecRetrieve == RetrieveInit /\ [][RetrieveNext]_vars

\* C7: the chunk sequence get_comprehensive_context builds by merging the
\* direct results with the key-term results holds no two chunks of the same
\* (book_id, chunk_index).
C7_MergedChunksDistinct ==
    rOut.name \in {"get_comprehensive_context", "enhanced_get_comprehensive_context"} =>
        \A i \in 1..Len(rOut.merged), j \in 1..Len(rOut.merged) :
            i # j => \/ rOut.merged[i].book_id # rOut.merged[j].book_id
                     \/ rOut.merged[i].chunk_index # rOut.merged[j].chunk_index

\* A merge in which a key-term search found again a chunk of the direct
\* search, and two chunks remained.
C7_Witness ==
    /\ rOut.name = "get_comprehensive_context"
    /\ Len(rIn.terms) > 0
    /\ rIn.store_up
    /\ Len(rOut.merged) >= 2
    /\ Len(retrieve_relevant_chunks(SeedStore, rIn.d, rIn.book_ids, rIn.n_results, TRUE))
       + Len(term_chunks(SeedStore, rIn.terms, rIn.book_ids, TRUE)) > Len(rOut.merged)

\* The (book_id, chunk_index) identities of a chunk list.
ChunkIdentities(chunks) == {<<c.book_id, c.chunk_index>> : c \in Range(chunks)}

\* The chunk list the call just made handed to its deduplication loop.
DeduplicationInput ==
    CASE rOut.name = "retrieve_relevant_chunks" ->
            collection_query(SeedStore, rIn.d, Min(rIn.n_results * 2, 100),
                             [filtered |-> rIn.book_ids.given /\ rIn.book_ids.ids # <<>>,
                              in |-> Range(rIn.book_ids.ids)],
                             rIn.store_up).rows
      [] rOut.name = "get_comprehensive_context" ->
            LET chunks == retrieve_relevant_chunks(SeedStore, rIn.d, rIn.book_ids,
                                                   rIn.n_results, rIn.store_up)
            IN  IF chunks = <<>> THEN <<>>
                ELSE chunks \o term_chunks(SeedStore, Take(rIn.terms, 5), rIn.book_ids,
                                           rIn.store_up)
      [] rOut.name = "enhanced_get_comprehensive_context" ->
            enhanced_retrieve_relevant_chunks(BunnyStore, rIn.d, rIn.n_results \div 3,
                                              rIn.store_up)
            \o enhanced_term_chunks(BunnyStore, rIn.terms, rIn.store_up)
      [] OTHER -> <<>>

\* The chunk list that loop produced.
DeduplicationOutput ==
    IF rOut.name = "retrieve_relevant_chunks" THEN deduplicate(DeduplicationInput)
    ELSE IF rOut.name \in {"get_comprehensive_context",
                           "enhanced_get_comprehensive_context"}
    THEN rOut.merged
    ELSE <<>>

\* C27: deduplication drops a chunk only if a chunk with the same
\* (book_id, chunk_index) has been kept: every identity handed to the loop
\* is still there after it.
C27_DedupKeepsEveryIdentity ==
    ChunkIdentities(DeduplicationOutput) = ChunkIdentities(DeduplicationInput)

\* What does hold: every chunk kept is one of the chunks handed in.
DedupKeepsOnlyGivenChunks ==
    ChunkIdentities(DeduplicationOutput) \subseteq ChunkIdentities(DeduplicationInput)

\* b1's and b2's first chunks, which open with the same 50 characters, were
\* both found, and one of them was dropped as a duplicate of the other.
DifferentChunksCollapsed ==
    /\ rOut.name = "retrieve_relevant_chunks"
    /\ {<<"b1", 0>>, <<"b2", 0>>} \subseteq ChunkIdentities(DeduplicationInput)
    /\ Cardinality(ChunkIdentities(DeduplicationOutput) \cap {<<"b1", 0>>, <<"b2", 0>>}) = 1

QueryInit ==
    /\ ValidIdle /\ AppIdle /\ RetrieveIdle /\ RagIdle /\ StoreIdle /\ RaceIdle
    /\ program \in {"multi", "single"}
    /\ now = 0
    /\ analysisCache = [b \in BookIds |-> NoFile]
    /\ kgCache = [b \in BookIds |-> NoFile]
    /\ kgSavedAt = [b \in BookIds |-> -1]
    /\ entityIndex = {}
    /\ baCacheFile = NoFile
    /\ baMetadataFile = NoFile
    /\ bunny = Cardinality(BunnyStore)
    /\ ret = None
    /\ op = IdleOp

\* The book_ids and n_results a question is asked with in SpecQuery.
QueryBookIds ==
    {NoBookIds} \cup {[given |-> TRUE, ids |-> l] : l \in {<<"b1">>, <<GhostBook>>}}

QueryNext ==
    /\ \/ \E book_ids \in QueryBookIds, n_results \in {0, 1}, use \in BOOLEAN,
             retrieval \in QueryRetrievals(SeedStore), ext \in AnalysisGraphs,
             s \in {"text1", "raise"}, answer \in {"text1", "raise"} :
              Query(book_ids, n_results, use, retrieval, ext, s, "text1", "text1", answer, DiskOk)
       \/ \E n_results \in {0, 1, 3}, use \in BOOLEAN,
             retrieval \in [d : {[ch \in BunnyStore |-> 0]},
                            terms : {<<>>, <<[d |-> [ch \in BunnyStore |-> 0], n |-> 2]>>},
                            store_up : BOOLEAN],
             s \in {"text1", "raise"}, answer \in {"text1", "raise"} :
              EnhancedQuery(n_results, use, retrieval, s, "text1", "text1", answer, BaDiskOk)
    /\ UNCHANGED validVars
    /\ UNCHANGED appVars
    /\ UNCHANGED retrieveVars
    /\ UNCHANGED storeVars
    /\ UNCHANGED raceVars

SpecQuery == QueryInit /\ [][QueryNext]_vars

\* C3: a query whose retrieval yields no chunk returns the fixed answer with
\* chunks_used = 0, and no LLM call is made at any point during that query.
C3_EmptyContextNoLLMCall ==
    (op.name \in {"query", "enhanced_query"} /\ ~op.found) =>
        /\ ret.answer = NoInformationAnswer
        /\ ret.chunks_used = 0
        /\ op.llm_calls = 0

\* What does hold of such a query: the fixed answer, chunks_used = 0 and no
\* call of the answer-composing LLM.
EmptyContextNoComposingCall ==
    (op.name \in {"query", "enhanced_query"} /\ ~op.found) =>
        /\ ret.answer = NoInformationAnswer
        /\ ret.chunks_used = 0
        /\ op.compose_calls = 0

\* C13: generate_response never raises: a failure of its LLM call comes back
\* as an error string, which query returns in the 'answer' field of its
\* normal result dictionary.
C13_ComposeFailureBecomesAnswer ==
    (op.name \in {"query", "enhanced_query"} /\ op.compose = "raise") =>
        /\ {"answer", "chunks_used", "context", "book_knowledge_used"} \subseteq DOMAIN ret
        /\ ret.answer = "Error generating response"
        /\ op.compose_calls = 1

\* A MultiBookRAG query whose composing call failed.
C13_Witness ==
    /\ op.name = "query"
    /\ op.found
    /\ op.compose = "raise"
    /\ ret.answer = "Error generating response"

\* C20: every MultiBookRAG.query passes through INIT, RETRIEVING, then
\* CONTEXT_EMPTY, DONE or CONTEXT_FOUND, COMPOSING, DONE; it ends with a
\* result holding an 'answer'; the composing LLM call is made at most once,
\* only when a non-empty context was found, and once only when it fails.
C20_QueryStateMachine ==
    op.name = "query" =>
        /\ op.path = (IF op.found THEN PathFound ELSE PathEmpty)
        /\ "answer" \in DOMAIN ret
        /\ op.compose_calls \in {0, 1}
        /\ (op.compose_calls = 1) = op.found
        /\ (op.compose = "raise") => (op.compose_calls = 1)
        /\ ~op.found => ret.answer = NoInformationAnswer

\* A query that initialised the book knowledge, found context and composed
\* its answer with one call.
C20_Witness ==
    /\ op.name = "query"
    /\ op.path = PathFound
    /\ op.init_calls > 0
    /\ op.compose_calls = 1
    /\ ret.answer = "text1"

\* A query that ended in CONTEXT_EMPTY.
QueryEndedEmpty ==
    /\ op.name = "query"
    /\ op.path = PathEmpty
    /\ op.compose_calls = 0

\* ------------------------------------------- the callers of a query
\* The parameters MultiBookRAG.query accepts by name ...
QueryParameters == {"question", "book_ids", "n_results", "use_book_knowledge"}

\* ... and the keywords the POST /api/query handler calls it with.
QueryBooksKeywords ==
    {"question", "book_ids", "n_results", "use_book_knowledge", "model"}

\* The fields of the result the handler reads into its response ...
QueryBooksFields ==
    {"answer", "books_searched", "context_length", "chunks_used", "model_used"}

\* ... and those display_result reads after it has printed the answer.
DisplayResultFields == {"context_length", "book_knowledge_length", "books_searched"}

\* app.py query_books, from the call of rag.query on: an unexpected keyword
\* or a missing field of the result raises, and the handler's except answers
\* 500 with success false; result is what query returns when it is entered.
query_books(result) ==
    IF ~(QueryBooksKeywords \subseteq QueryParameters)
    THEN [status |-> 500, success |-> FALSE, answer |-> "none", error |-> "TypeError"]
    ELSE IF ~(QueryBooksFields \subseteq DOMAIN result)
         THEN [status |-> 500, success |-> FALSE, answer |-> "none", error |-> "KeyError"]
         ELSE [status |-> 200, success |-> TRUE, answer |-> result.answer, error |-> "none"]

\* main_multi_book.py display_result inside main's loop: the answer is
\* printed first; a field missing after that raises KeyError, which the loop
\* catches and prints as an error.
display_result(result) ==
    IF DisplayResultFields \subseteq DOMAIN result
    THEN [printed |-> <<result.answer>>, error |-> "none"]
    ELSE [printed |-> <<result.answer>>, error |-> "KeyError"]

\* C30: when MultiBookRAG.query ends on the empty-context path, the POST
\* /api/query handler and the CLI display_result deliver the fixed
\* no-information answer as a successful response, not as an error.
C30_EmptyAnswerDeliveredAsSuccess ==
    (op.name = "query" /\ ~op.found) =>
        /\ query_books(ret).success
        /\ query_books(ret).status = 200
        /\ query_books(ret).answer = NoInformationAnswer
        /\ display_result(ret).printed = <<NoInformationAnswer>>
        /\ display_result(ret).error = "none"

\* What does hold: the empty-context result lacks the fields both callers
\* read, so the handler answers 500 without the answer and the CLI prints
\* the answer and then an error.
EmptyResultFailsAtItsCallers ==
    (op.name = "query" /\ ~op.found) =>
        /\ ~(QueryBooksFields \subseteq DOMAIN ret)
        /\ ~query_books(ret).success
        /\ query_books(ret).status = 500
        /\ display_result(ret).printed = <<NoInformationAnswer>>
        /\ display_result(ret).error = "KeyError"

\* A query that found context is displayed by the CLI without an error.
FoundResultDisplayed ==
    (op.name = "query" /\ op.found) => display_result(ret).error = "none"

\* An empty-context query whose answer the handler turned into an error.
EmptyAnswerBecameError ==
    /\ QueryEndedEmpty
    /\ ret.answer = NoInformationAnswer
    /\ query_books(ret).status = 500
    /\ display_result(ret).error = "KeyError"

\* --------------------------------------------- uploads and the book list
\* Books are uploaded and uploaded again, each time split into 1..MaxChunks
\* chunks, and listed in between.
StoreInit == ValidIdle /\ CacheIdle /\ AppIdle /\ RetrieveIdle /\ RagIdle /\ StoreIdle /\ RaceIdle

StoreNext ==
    /\ \/ \E book_id \in Books, n \in 1..MaxChunks : UploadSingleBook(book_id, n)
       \/ \E sample \in Samples(collection) : GetAvailableBooks(sample)
    /\ UNCHANGED validVars
    /\ UNCHANGED appVars
    /\ UNCHANGED retrieveVars
    /\ UNCHANGED ragVars
    /\ UNCHANGED raceVars

SpecStore == StoreInit /\ [][StoreNext]_vars

\* The number of records stored with a book_id.
StoredChunkCount(book_id) == Cardinality({ch \in collection : ch.book_id = book_id})

\* C19: each book get_available_books returns has chunk_count equal to the
\* number of chunks stored with that book_id.
C19_ChunkCountIsStoredCount ==
    op.name = "get_available_books" =>
        \A info \in ret : info.chunk_count = StoredChunkCount(info.book_id)

\* What does hold of the listing: one entry for every stored book, and a
\* chunk_count that is the total_chunks of one of the book's records.
ListingNamesStoredBooks ==
    op.name = "get_available_books" =>
        /\ {info.book_id : info \in ret} = {ch.book_id : ch \in collection}
        /\ \A info \in ret : \E ch \in collection :
               ch.book_id = info.book_id /\ ch.total_chunks = info.chunk_count

\* A book uploaded once is listed with its stored count.
ListedAfterOneUpload ==
    /\ op.name = "get_available_books"
    /\ ret # {}
    /\ \A info \in ret : info.chunk_count = StoredChunkCount(info.book_id)

\* ------------------------------------- the age of the knowledge-graph file
\* A graph is built and saved, days pass, and the graph is read back.
\* What the entity extraction of these runs answers: a failure, a graph
\* without orphans, a graph with an orphaned relationship.
AgeGraphs ==
    AnalysisGraphs \cup
    { [entities |-> [e \in {"a"} |-> EntityData(e)],
       relationships |-> <<[from |-> "a", to |-> "b", type |-> "knows"]>>] }

KGAgeInit == ValidIdle /\ CacheIdle /\ AppIdle /\ RetrieveIdle /\ RagIdle /\ StoreIdle /\ RaceIdle

KGAgeNext ==
    /\ \/ Tick
       \/ \E ext \in AgeGraphs :
              RefreshKnowledgeGraph("b1", ext, "text1", "text1", "text1", DiskOk)
       \/ GetKnowledgeGraph("b1")
       \/ ValidateAndClean("b1", "ok")
       \/ GetForceGraphData("b1", "ok")
       \/ \E entity_id \in EntityIds : GetEntityRelationships(entity_id, "b1")
    /\ UNCHANGED validVars
    /\ UNCHANGED appVars
    /\ UNCHANGED retrieveVars
    /\ UNCHANGED ragVars
    /\ UNCHANGED storeVars
    /\ UNCHANGED raceVars

SpecKGAge == KGAgeInit /\ [][KGAgeNext]_vars

\* The knowledge-graph file of book_id was saved cache_expiry_days or more
\* days ago.
KGEntryExpired(book_id) ==
    kgSavedAt[book_id] >= 0 /\ now - kgSavedAt[book_id] >= cache_expiry_days

\* The result the read operation called name gives for an absent entry.
IsAbsentResult(name, result) ==
    CASE name = "get_knowledge_graph" -> result = None
      [] name = "validate_and_clean_knowledge_graph" -> result = EmptyGraph
      [] name = "get_force_graph_data" -> result = force_graph_of(EmptyGraph)
      [] name = "get_entity_relationships" -> result = <<>>

KGReadOperations ==
    {"get_knowledge_graph", "validate_and_clean_knowledge_graph",
     "get_force_graph_data", "get_entity_relationships"}

\* C17: get_knowledge_graph, validate_and_clean_knowledge_graph,
\* get_force_graph_data and get_entity_relationships treat a cache entry
\* aged 7 days or more as absent: no such step returns graph data from it.
C17_ExpiredEntryAbsent ==
    [][ ( /\ now' = now
          /\ op'.name \in KGReadOperations
          /\ KGEntryExpired(op'.book_id) )
        => IsAbsentResult(op'.name, ret') ]_vars

\* What does hold of get_knowledge_graph: None without a cache file, and
\* otherwise the graph in the file, whatever its age.
ReadsReturnTheFile ==
    [][ (now' = now /\ op'.name = "get_knowledge_graph")
        => ret' = (IF kgCache["b1"] = NoFile THEN None ELSE kgCache["b1"]) ]_vars

\* get_knowledge_graph returned entities from a file saved 7 or more days
\* before.
ExpiredGraphReturned ==
    /\ op.name = "get_knowledge_graph"
    /\ KGEntryExpired("b1")
    /\ ret # None
    /\ DOMAIN ret.entities # {}

\* --------------------------------------- the age of the book knowledge
\* MultiBookRAG(): a new process starts with self.book_analyses = {}; the
\* cache files stay.
ConstructMultiBookRAG ==
    /\ program = "multi"
    /\ book_analyses' = <<>>
    /\ analysis_created_at' = <<>>
    /\ ret' = None
    /\ op' = [name |-> "MultiBookRAG"]
    /\ UNCHANGED <<program, now, analysisCache, kgCache, kgSavedAt, entityIndex,
                   baCacheFile, baMetadataFile, bunny, analysis_summary>>

\* Questions are asked over days, in one process or after a restart.
KnowledgeInit == ValidIdle /\ CacheIdle /\ AppIdle /\ RetrieveIdle /\ RagIdle /\ StoreIdle /\ RaceIdle

KnowledgeNext ==
    /\ \/ Tick /\ UNCHANGED ragVars
       \/ ConstructMultiBookRAG
       \/ \E book_ids \in QueryBookIds, use \in BOOLEAN,
             retrieval \in {r \in QueryRetrievals(SeedStore) : r.terms = <<>> /\ r.store_up} :
              Query(book_ids, 1, use, retrieval, [failure |-> "raise"], "text1",
                    "text1", "text1", "text1", DiskOk)
    /\ UNCHANGED validVars
    /\ UNCHANGED appVars
    /\ UNCHANGED retrieveVars
    /\ UNCHANGED storeVars
    /\ UNCHANGED raceVars

SpecKnowledge == KnowledgeInit /\ [][KnowledgeNext]_vars

\* The books whose analyses get_book_knowledge(book_ids) puts into the
\* prompt of the query just made.
BooksInPrompt == op.books \cap {b \in DOMAIN book_analyses : analysis_created_at[b] >= 0}

\* C18: the book analysis a query passes into the prompt as book knowledge
\* is never 7 or more days older than its created_at.
C18_BookKnowledgeNotExpired ==
    [][ (now' = now /\ op'.name = "query" /\ ret'.book_knowledge_used)
        => \A b \in BooksInPrompt' :
               now - analysis_created_at'[b] < cache_expiry_days ]_vars

\* What does hold: the analyses a query loads when book_analyses is empty
\* are not expired at that moment.
LoadedKnowledgeNotExpired ==
    [][ (now' = now /\ op'.name = "query" /\ book_analyses = <<>>)
        => \A b \in DOMAIN book_analyses' :
               analysis_created_at'[b] >= 0 =>
                   now - analysis_created_at'[b] < cache_expiry_days ]_vars

\* A query put into its prompt an analysis created 7 or more days before.
ExpiredKnowledgeUsed ==
    /\ op.name = "query"
    /\ ret.book_knowledge_used
    /\ \E b \in BooksInPrompt : now - analysis_created_at[b] > cache_expiry_days

\* ------------------------------------------------- cache writes that fail
\* Every cache write of an operation succeeds, fails on opening the file
\* (the old file stays) or fails while dumping (a truncated file is left).
FaultsInit ==
    ValidIdle /\ program \in {"multi", "single"} /\ CacheEmpty /\ AppIdle
    /\ RetrieveIdle /\ RagIdle /\ StoreIdle /\ RaceIdle

FaultsNext ==
    /\ \/ \E f \in BOOLEAN, ext \in AgeGraphs, disk \in Disks :
              AnalyzeSingleBook("b1", f, ext, "text1", "text1", "text1", disk)
       \/ \E f \in BOOLEAN, answer \in AgeGraphs, outcome \in WriteOutcomes :
              ExtractKnowledgeGraph("b1", f, answer, outcome)
       \/ \E outcome \in WriteOutcomes : ValidateAndClean("b1", outcome)
       \/ \E f \in BOOLEAN, s \in {"text1", "raise"}, disk \in BaDisks :
              PerformFullAnalysis(f, s, "text1", "text1", disk)
    /\ UNCHANGED validVars
    /\ UNCHANGED appVars
    /\ UNCHANGED retrieveVars
    /\ UNCHANGED ragVars
    /\ UNCHANGED storeVars
    /\ UNCHANGED raceVars

SpecFaults == FaultsInit /\ [][FaultsNext]_vars

\* One of the cache writes of the operation just made failed.
WriteFailed == op.wrote /\ \E k \in DOMAIN op.disk : op.disk[k] # "ok"

\* What the operation just made returns, from the state it started in and
\* the LLM answers it got, when all its cache writes succeed.
PayloadWithWritesOk ==
    CASE op'.name = "analyze_single_book" ->
            analyze_single_book(SeedStore, op'.book_id, op'.force, now,
                                analysisCache[op'.book_id], kgCache[op'.book_id],
                                entityIndex, op'.llm.ext, op'.llm.s, op'.llm.c,
                                op'.llm.p, DiskOk).ret
      [] op'.name = "extract_knowledge_graph" ->
            extract_knowledge_graph(op'.book_id, op'.force, now, kgCache[op'.book_id],
                                    entityIndex, op'.llm.ext, "ok").ret
      [] op'.name = "validate_and_clean_knowledge_graph" ->
            validate_and_clean_knowledge_graph(kgCache[op'.book_id], "ok").ret
      [] op'.name = "perform_full_analysis" ->
            perform_full_analysis(op'.force, now, baCacheFile, baMetadataFile, bunny,
                                  op'.llm.s, op'.llm.c, op'.llm.p, BaDiskOk).ret

\* C15: when a cache write fails inside analyze_single_book,
\* extract_knowledge_graph, validate_and_clean_knowledge_graph or
\* save_analysis_to_cache, the operation returns the payload it would have
\* returned had the write succeeded, and no error result.
C15_FailedWriteSamePayload ==
    [][ WriteFailed' =>
            /\ ret' = PayloadWithWritesOk
            /\ "error" \notin DOMAIN ret' ]_vars

\* An extraction whose cache write failed while dumping returned its graph
\* and left a file that cannot be read back.
C15_Witness ==
    /\ op.name = "extract_knowledge_graph"
    /\ op.disk = [kg |-> "dump_fails"]
    /\ kgCache["b1"] = CorruptFile
    /\ "entities" \in DOMAIN ret
    /\ DOMAIN ret.entities # {}

\* An analysis whose two cache writes both failed on opening the file.
AnalysisReturnedUncached ==
    /\ op.name = "analyze_single_book"
    /\ op.disk = [kg |-> "open_fails", analysis |-> "open_fails"]
    /\ analysisCache["b1"] = NoFile
    /\ "book_summary" \in DOMAIN ret

\* save_analysis_to_cache failed on its second write: the analysis is
\* returned and the metadata file is unreadable.
BookAnalysisReturnedUncached ==
    /\ op.name = "perform_full_analysis"
    /\ op.disk = [cache |-> "ok", metadata |-> "dump_fails"]
    /\ baMetadataFile = CorruptFile
    /\ "book_summary" \in DOMAIN ret

\* ------------------------------------ cleaning and refreshing side by side
\* What the entity extraction of a refresh answers in these runs: graphs
\* with and without an orphaned relationship.
RaceGraphs ==
    { [entities |-> [e \in {"a", "b"} |-> EntityData(e)],
       relationships |-> <<[from |-> "a", to |-> "b", type |-> "knows"]>>],
      [entities |-> [e \in {"a"} |-> EntityData(e)],
       relationships |-> <<[from |-> "a", to |-> "b", type |-> "knows"]>>],
      [entities |-> [e \in {"a"} |-> EntityData(e)],
       relationships |-> <<[from |-> "a", to |-> "a", type |-> "knows"],
                           [from |-> "b", to |-> "a", type |-> "knows"]>>],
      [entities |-> [e \in {"a", "b"} |-> EntityData(e)],
       relationships |-> <<[from |-> "b", to |-> "a", type |-> "knows"]>>] }

RaceInit == ValidIdle /\ CacheIdle /\ AppIdle /\ RetrieveIdle /\ RagIdle /\ StoreIdle /\ RaceIdle

RaceNext ==
    /\ \/ CleanLoad("b1")
       \/ CleanFinish("b1", "ok")
       \/ \E ext \in RaceGraphs : RefreshBesideClean("b1", ext)
    /\ UNCHANGED validVars
    /\ UNCHANGED appVars
    /\ UNCHANGED retrieveVars
    /\ UNCHANGED ragVars
    /\ UNCHANGED storeVars

SpecRace == RaceInit /\ [][RaceNext]_vars

\* The graph without its orphaned relationships.
Cleaned(kg_data) ==
    [entities |-> kg_data.entities,
     relationships |-> valid_relationships(kg_data.entities, kg_data.relationships)]

\* C24: when a cleaning ran while the same book was refreshed, then once
\* both have finished the cache holds the refreshed graph, cleaned or not,
\* and never the graph from before the refresh.
C24_RefreshSurvivesCleaning ==
    (cpc = "done" /\ crefreshed # None) =>
        kgCache["b1"] \in {crefreshed, Cleaned(crefreshed)}

\* What does hold: a cleaning that no refresh overlapped leaves the cleaned
\* form of the graph it read.
UndisturbedCleaning ==
    (cpc = "done" /\ crefreshed = None /\ get_knowledge_graph(ckg) # None
     /\ op.name = "validate_and_clean_knowledge_graph") =>
        kgCache["b1"] = Cleaned(ckg)

\* The cleaning wrote the cleaned form of the graph it had read before the
\* refresh over the refreshed graph.
StaleGraphWrittenBack ==
    /\ cpc = "done"
    /\ crefreshed # None
    /\ get_knowledge_graph(ckg) # None
    /\ kgCache["b1"] = Cleaned(ckg)
    /\ kgCache["b1"] \notin {crefreshed, Cleaned(crefreshed)}

\* ------------------------------- queries restricted to different books
\* One MultiBookRAG answers a sequence of questions, each restricted to a
\* list of book ids.
SequenceBookIds ==
    {[given |-> TRUE, ids |-> l] : l \in {<<"b1">>, <<"b2">>, <<"b1", "b2">>, <<GhostBook>>}}

SequenceInit == ValidIdle /\ CacheIdle /\ AppIdle /\ RetrieveIdle /\ RagIdle /\ StoreIdle /\ RaceIdle

SequenceNext ==
    /\ \/ ConstructMultiBookRAG
       \/ \E book_ids \in SequenceBookIds, use \in BOOLEAN,
             retrieval \in {r \in QueryRetrievals(SeedStore) : r.terms = <<>>},
             s \in {"text1", "raise"} :
              Query(book_ids, 1, use, retrieval, [failure |-> "raise"], s,
                    "text1", "text1", "text1", DiskOk)
    /\ UNCHANGED validVars
    /\ UNCHANGED appVars
    /\ UNCHANGED retrieveVars
    /\ UNCHANGED storeVars
    /\ UNCHANGED raceVars

SpecSequence == SequenceInit /\ [][SequenceNext]_vars

\* C26: a query with use_book_knowledge=True restricted to books that all
\* have chunks uses the book knowledge of every one of them, whatever the
\* earlier queries were restricted to.
C26_KnowledgeOfEveryQueriedBook ==
    ( /\ op.name = "query"
      /\ op.use_book_knowledge
      /\ op.found
      /\ op.books \subseteq Books )
    => /\ ret.book_knowledge_used
       /\ op.books \subseteq DOMAIN book_analyses

\* What does hold: the first query of a process that asks for book
\* knowledge loads the analyses of exactly the books it is restricted to.
FirstQueryLoadsItsBooks ==
    [][ ( /\ op'.name = "query"
          /\ op'.use_book_knowledge
          /\ book_analyses = <<>> )
        => DOMAIN book_analyses' = op'.books ]_vars

\* A query restricted to b2 found context but no book knowledge, because
\* an earlier query had loaded the knowledge of b1 only.
KnowledgeOfEarlierBooksOnly ==
    /\ op.name = "query"
    /\ op.use_book_knowledge
    /\ op.found
    /\ op.books = {"b2"}
    /\ ~ret.book_knowledge_used
    /\ DOMAIN book_analyses = {"b1"}
====
